---- MODULE Spec2Model ----
(***************************************************************************)
(* A model of the willow-leather-api cricket career backend: the player    *)
(* auction (app/engine/auction_engine.py, app/api/auction.py), the         *)
(* interactive match (app/engine/match_engine.py, app/api/match.py) and    *)
(* the season (app/engine/season_engine.py, app/api/season.py).            *)
(*                                                                         *)
(* Money is kept in rupees, as the code keeps it.  Every random draw of    *)
(* the code is a nondeterministic choice.  A database row that is None in  *)
(* the code is 0 (ids) or "" (strings) here.                               *)
(***************************************************************************)
EXTENDS Integers, Sequences, FiniteSets, TLC

VARIABLES
    players,      \* table players: id -> row (auction-relevant columns)
    auction,      \* the career's Auction row
    entries,      \* table auction_player_entries, indexed by auction_order
    teamStates,   \* table team_auction_states: team id -> row
    bids,         \* table auction_bids, in insertion order
    career,       \* Career.status, Season.phase, Season.auction_completed
    lastReq,      \* history: the last request served and its outcome
    reqs,         \* concurrent requests: thread -> its progress
    careerCount,  \* number of careers created (career ids 1..careerCount)
    playerTbl,    \* table players over all careers: id -> origin, team_id
    auctionTbl,   \* per career: its auction's status and player entries
    careerTbl,    \* table careers: career id -> row (the owner's user_id)
    fixtures,     \* table fixtures of the season, in the order of insertion
    active_matches, \* api/match.py active_matches: fixture id -> engine
    completed_match_results, \* fixture id -> the engine and the winner
    served,       \* history: the number of match and season requests served
    resultLog,    \* history: the match-result requests and their outcomes
    standings,    \* table team_season_stats: team id -> its row
    pending_toss_results, \* api/match.py pending_toss_results: fixture id -> toss
    playing_xi    \* table playing_xi: team id -> player ids by position

auctionVars == <<players, auction, entries, teamStates, bids, career, lastReq>>

careersVars == <<careerCount, playerTbl, auctionTbl, careerTbl>>

matchVars ==
    <<fixtures, active_matches, completed_match_results, served, resultLog,
      standings, pending_toss_results, playing_xi>>

vars == <<players, auction, entries, teamStates, bids, career, lastReq, reqs,
          careerCount, playerTbl, auctionTbl, careerTbl, fixtures, active_matches,
          completed_match_results, served, resultLog, standings,
          pending_toss_results, playing_xi>>

\* The state outside the model of one career's auction.
outsideAuctionVars == <<careersVars, matchVars>>

\* No season has been generated and no match is being played.
NoMatches ==
    /\ fixtures = <<>>
    /\ active_matches = <<>>
    /\ completed_match_results = <<>>
    /\ served = 0
    /\ resultLog = <<>>
    /\ standings = <<>>
    /\ pending_toss_results = <<>>
    /\ playing_xi = <<>>

Max(a, b) == IF a >= b THEN a ELSE b

Min(a, b) == IF a <= b THEN a ELSE b

(***************************************************************************)
(* Rows and constants of the auction.                                      *)
(***************************************************************************)
None == 0

\* Teams of the career: the user's team and the AI teams.
NumTeams == 2

\* Requests the server's thread pool runs at the same time.
NumThreads == 2

UserTeam == 1

Teams == 1..NumTeams

TeamBudget == 900000000

MinSquadSize == 18

MaxSquadSize == 25

MaxOverseas == 8

ReservePerSlot == 20000000

MoneyUnit == 500000

\* random.uniform(0.85, 1.15), in percent: both ends and the middle.
Variances == {85, 100, 115}

BID_INCREMENTS ==
    << <<0, 500000>>, <<10000000, 1000000>>, <<50000000, 2500000>>,
       <<100000000, 5000000>>, <<150000000, 10000000>> >>

NewTeamState(budget) ==
    [remaining_budget |-> budget, total_players |-> 0, overseas_players |-> 0,
     batsmen |-> 0, bowlers |-> 0, all_rounders |-> 0, wicket_keepers |-> 0]

NewAuction ==
    [status |-> "not_started", current_player_id |-> None, current_bid |-> 0,
     current_bidder_team_id |-> None, current_category |-> "",
     players_sold |-> 0, players_unsold |-> 0, total_players |-> 0]

NewPlayer(role, rating, overseas, base) ==
    [role |-> role, overall_rating |-> rating, is_overseas |-> overseas,
     base_price |-> base, team_id |-> None, sold_price |-> 0]

\* TeamAuctionState.min_players_needed
min_players_needed(st) == Max(0, MinSquadSize - st.total_players)

\* max_bid_possible were it to reserve 2 000 000 for each remaining slot.
max_bid_possible_two_million(st) ==
    Max(0, st.remaining_budget - (min_players_needed(st) - 1) * 2000000)

\* TeamAuctionState.max_bid_possible
max_bid_possible(st) ==
    LET slots_to_fill == min_players_needed(st) - 1
        reserved == slots_to_fill * ReservePerSlot
    IN  Max(0, st.remaining_budget - reserved)

\* AuctionEngine.get_next_bid_amount: the increment of the last threshold
\* that current_bid has reached.
RECURSIVE IncrementFrom(_, _, _)
IncrementFrom(current_bid, i, increment) ==
    IF i > Len(BID_INCREMENTS) THEN increment
    ELSE IncrementFrom(current_bid, i + 1,
                       IF current_bid >= BID_INCREMENTS[i][1]
                       THEN BID_INCREMENTS[i][2] ELSE increment)

get_next_bid_amount(current_bid) ==
    current_bid + IncrementFrom(current_bid, 1, BID_INCREMENTS[1][2])

\* AuctionEngine._get_player_category
get_player_category(p) ==
    IF p.overall_rating >= 80 THEN "marquee"
    ELSE CASE p.role = "batsman" -> "batsmen"
           [] p.role = "bowler" -> "bowlers"
           [] p.role = "all_rounder" -> "all_rounders"
           [] p.role = "wicket_keeper" -> "wicket_keepers"
           [] OTHER -> "batsmen"

category_order(c) ==
    CASE c = "marquee" -> 0
      [] c = "batsmen" -> 1
      [] c = "bowlers" -> 2
      [] c = "all_rounders" -> 3
      [] c = "wicket_keepers" -> 4
      [] OTHER -> 99

\* The sort key of initialize_auction and its lexicographic order.
SortKey(p) ==
    <<category_order(get_player_category(p)), 0 - p.base_price, 0 - p.overall_rating>>

KeyLess(a, b) ==
    \/ a[1] < b[1]
    \/ a[1] = b[1] /\ a[2] < b[2]
    \/ a[1] = b[1] /\ a[2] = b[2] /\ a[3] < b[3]

\* Position of player i in sorted(players, key): Python's sort is stable,
\* so equal keys keep the order of the query result (by id).
SortedPosition(ps, i) ==
    1 + Cardinality({j \in DOMAIN ps :
                        \/ KeyLess(SortKey(ps[j]), SortKey(ps[i]))
                        \/ SortKey(ps[j]) = SortKey(ps[i]) /\ j < i})

\* AuctionEngine.initialize_auction(teams, players) on the database db.
initialize_auction(db, ids) ==
    LET ps == [i \in ids |-> db.players[i]]
        at(o) == CHOOSE i \in ids : SortedPosition(ps, i) = o
        newEntries ==
            [o \in 1..Cardinality(ids) |->
                [player_id |-> at(o), status |-> "available",
                 category |-> get_player_category(db.players[at(o)]),
                 sold_to_team_id |-> None, sold_price |-> 0]]
    IN  [db EXCEPT
            !.teamStates = [t \in Teams |-> NewTeamState(TeamBudget)],
            !.entries = newEntries,
            !.auction = [db.auction EXCEPT
                            !.total_players = Cardinality(ids),
                            !.status = "in_progress",
                            !.current_category =
                                IF ids # {} THEN newEntries[1].category ELSE @]]

\* AuctionEngine.get_next_player: the first available entry by auction_order,
\* None when there is none.
get_next_player(db) ==
    LET avail == {o \in DOMAIN db.entries : db.entries[o].status = "available"}
    IN  IF avail = {} THEN None
        ELSE CHOOSE o \in avail : \A o2 \in avail : o <= o2

\* The entry of a player (filter_by(player_id=...).first()).
EntryOf(db, pid) ==
    LET es == {o \in DOMAIN db.entries : db.entries[o].player_id = pid}
    IN  IF es = {} THEN None ELSE CHOOSE o \in es : \A o2 \in es : o <= o2

\* AuctionEngine.start_bidding(player_entry)
start_bidding(db, o) ==
    [db EXCEPT
        !.entries[o].status = "in_bidding",
        !.auction = [db.auction EXCEPT
                        !.current_player_id = db.entries[o].player_id,
                        !.current_bid = db.players[db.entries[o].player_id].base_price,
                        !.current_bidder_team_id = None,
                        !.current_category = db.entries[o].category]]

\* AuctionEngine._analyze_team_needs; urgency is kept in twentieths of the
\* urgency multiplier 1.0 + urgency * 0.5 (needed/10 * 0.5 = needed/20;
\* 0.3 * 0.5 = 3/20).
analyze_team_needs(st) ==
    [needs_batsmen |-> Max(0, 5 - st.batsmen),
     needs_bowlers |-> Max(0, 5 - st.bowlers),
     needs_all_rounders |-> Max(0, 3 - st.all_rounders),
     needs_wicket_keeper |-> Max(0, 2 - st.wicket_keepers),
     needs_overseas_star |-> (st.overseas_players < 4 /\ st.total_players < 10),
     urgency20 |-> IF min_players_needed(st) > 0
                   THEN Min(10, min_players_needed(st)) ELSE 3]

\* The role test shared by _calculate_player_value's need multiplier and the
\* probability bonus of _should_team_bid / run_competitive_ai_bidding.
HasRoleNeed(p, needs) ==
    \/ p.role = "batsman" /\ needs.needs_batsmen > 2
    \/ p.role = "bowler" /\ needs.needs_bowlers > 2
    \/ p.role = "all_rounder" /\ needs.needs_all_rounders > 1
    \/ p.role = "wicket_keeper" /\ needs.needs_wicket_keeper > 0

\* quality_multiplier, in tenths.
QualityMultiplier10(p) ==
    IF p.overall_rating >= 85 THEN 30
    ELSE IF p.overall_rating >= 75 THEN 20
    ELSE IF p.overall_rating >= 65 THEN 15
    ELSE IF p.overall_rating >= 55 THEN 12
    ELSE 8

\* need_multiplier, in hundredths, the overseas star bonus (x 1.3) included.
NeedMultiplier100(p, needs) ==
    LET base == IF p.role = "batsman" /\ needs.needs_batsmen > 2 THEN 150
                ELSE IF p.role = "bowler" /\ needs.needs_bowlers > 2 THEN 150
                ELSE IF p.role = "all_rounder" /\ needs.needs_all_rounders > 1 THEN 180
                ELSE IF p.role = "wicket_keeper" /\ needs.needs_wicket_keeper > 0 THEN 160
                ELSE 100
    IN  IF p.is_overseas /\ needs.needs_overseas_star /\ p.overall_rating >= 75
        THEN (base * 13) \div 10 ELSE base

\* int(x * variance) for a variance given in percent.
ScalePercent(x, pct) == (x \div 100) * pct + ((x % 100) * pct) \div 100

\* AuctionEngine._calculate_player_value with the drawn variance as an
\* argument.  base_price is a multiple of MoneyUnit for every player of the
\* model, which keeps the product of the multipliers an exact integer:
\* base * q/10 * n/100 * (20 + u)/20 = (base / 500000) * q * n * (20 + u) * 25.
calculate_player_value(db, pid, team_id, variance) ==
    LET p == db.players[pid]
        state == db.teamStates[team_id]
        needs == analyze_team_needs(state)
        max_value == (p.base_price \div MoneyUnit) * QualityMultiplier10(p)
                        * NeedMultiplier100(p, needs) * (20 + needs.urgency20) * 25
        capped == Min(max_value, max_bid_possible(state))
    IN  Max(p.base_price, ScalePercent(capped, variance))

\* The budget constraint alone.
can_afford_budget(db, pid, team_id, next_bid) ==
    ~(next_bid > max_bid_possible(db.teamStates[team_id]))

\* The three hard constraints every bidding path tests before a bid.
CanAfford(db, pid, team_id, next_bid) ==
    LET state == db.teamStates[team_id]
    IN  /\ ~(state.total_players >= MaxSquadSize)
        /\ ~(db.players[pid].is_overseas /\ state.overseas_players >= MaxOverseas)
        /\ ~(next_bid > max_bid_possible(state))

\* AuctionEngine._should_team_bid can return True: some variance puts the
\* valuation at or above the next bid (the probability is then at least 0.1).
should_team_bid_may(db, team_id, pid, current_bid) ==
    LET next_bid == get_next_bid_amount(current_bid)
    IN  /\ CanAfford(db, pid, team_id, next_bid)
        /\ \E v \in Variances :
              next_bid <= calculate_player_value(db, pid, team_id, v)

\* AuctionEngine._should_team_bid must return True: the bid probability is
\* min(1.0, max(0.1, 1 - 0.8 * ratio) + 0.3) = 1.0 for every variance, that
\* is the team has the role need and ratio <= 3/8.
should_team_bid_must(db, team_id, pid, current_bid) ==
    LET next_bid == get_next_bid_amount(current_bid)
    IN  /\ CanAfford(db, pid, team_id, next_bid)
        /\ HasRoleNeed(db.players[pid], analyze_team_needs(db.teamStates[team_id]))
        /\ \A v \in Variances :
              next_bid <= (3 * calculate_player_value(db, pid, team_id, v)) \div 8

\* AuctionEngine.place_bid: the database after the call (unchanged when the
\* bid is refused).
place_bid_ok(db, team_id, amount) ==
    /\ ~(amount > max_bid_possible(db.teamStates[team_id]))
    /\ ~(amount <= db.auction.current_bid)

\* The bid recorded whether or not it is accepted.
place_bid_recorded(db, team_id, pid, amount) ==
    [db EXCEPT
        !.bids = Append(@, [player_id |-> pid, team_id |-> team_id,
                            bid_amount |-> amount, is_winning_bid |-> FALSE])]

place_bid(db, team_id, pid, amount) ==
    IF ~place_bid_ok(db, team_id, amount) THEN db
    ELSE [db EXCEPT
            !.bids = Append(@, [player_id |-> pid, team_id |-> team_id,
                                bid_amount |-> amount, is_winning_bid |-> FALSE]),
            !.auction = [db.auction EXCEPT !.current_bid = amount,
                                           !.current_bidder_team_id = team_id]]

\* The first bid row matching the winning (player, team, amount), if any.
FirstBid(db, pid, team_id, amount) ==
    LET ms == {i \in DOMAIN db.bids :
                  /\ db.bids[i].player_id = pid
                  /\ db.bids[i].team_id = team_id
                  /\ db.bids[i].bid_amount = amount}
    IN  IF ms = {} THEN None ELSE CHOOSE i \in ms : \A j \in ms : i <= j

\* AuctionEngine.finalize_player(player_entry), entry o.
finalize_player(db, o) ==
    LET pid == db.entries[o].player_id
        p == db.players[pid]
        team == db.auction.current_bidder_team_id
        winning_bid == db.auction.current_bid
        state == db.teamStates[team]
        final_bid == FirstBid(db, pid, team, winning_bid)
        cleared(a) == [a EXCEPT !.current_player_id = None, !.current_bid = 0,
                                !.current_bidder_team_id = None]
    IN  IF team # None
        THEN [db EXCEPT
                !.entries[o] = [@ EXCEPT !.status = "sold",
                                         !.sold_to_team_id = team,
                                         !.sold_price = winning_bid],
                !.players[pid] = [@ EXCEPT !.team_id = team,
                                           !.sold_price = winning_bid],
                !.teamStates[team] =
                    [state EXCEPT
                        !.remaining_budget = @ - winning_bid,
                        !.total_players = @ + 1,
                        !.overseas_players = IF p.is_overseas THEN @ + 1 ELSE @,
                        !.batsmen = IF p.role = "batsman" THEN @ + 1 ELSE @,
                        !.bowlers = IF p.role = "bowler" THEN @ + 1 ELSE @,
                        !.all_rounders = IF p.role = "all_rounder" THEN @ + 1 ELSE @,
                        !.wicket_keepers = IF p.role = "wicket_keeper" THEN @ + 1 ELSE @],
                !.bids = IF final_bid = None THEN @
                         ELSE [@ EXCEPT ![final_bid].is_winning_bid = TRUE],
                !.auction = cleared([db.auction EXCEPT !.players_sold = @ + 1])]
        ELSE [db EXCEPT
                !.entries[o].status = "unsold",
                !.auction = cleared([db.auction EXCEPT !.players_unsold = @ + 1])]

(***************************************************************************)
(* The bidding loops.  A loop is run on configurations [db, passes,        *)
(* rounds]: one iteration maps a configuration to the set of               *)
(* configurations its random draws allow, and the loop's outcomes are the  *)
(* databases of the configurations at which it exits.                      *)
(***************************************************************************)
MaxRoundsFull == 100

MaxRoundsCompetitive == 100

\* AuctionEngine.get_ai_bids + run_bidding_round(user_bids=False, auto_mode):
\* the databases one round can leave.  The round ends without a bid only if
\* no team is certain to bid.
BiddingCandidates(db, auto_mode) ==
    {t \in Teams : /\ t # db.auction.current_bidder_team_id
                   /\ (auto_mode \/ t # UserTeam)}

run_bidding_round(db, auto_mode) ==
    LET pid == db.auction.current_player_id
        current_bid == db.auction.current_bid
        may == {t \in BiddingCandidates(db, auto_mode) :
                   should_team_bid_may(db, t, pid, current_bid)}
        must == {t \in may : should_team_bid_must(db, t, pid, current_bid)}
        next_bid == get_next_bid_amount(current_bid)
    IN  {place_bid(db, t, pid, next_bid) : t \in may}
            \cup (IF must = {} THEN {db} ELSE {})

\* One iteration of simulate_full_bidding's loop.
FullBiddingStep(x) ==
    {[db |-> d, rounds |-> x.rounds - 1,
      passes |-> IF d.auction.current_bidder_team_id
                        = x.db.auction.current_bidder_team_id
                    /\ d.auction.current_bid = x.db.auction.current_bid
                 THEN x.passes + 1 ELSE 0] : d \in run_bidding_round(x.db, TRUE)}

LoopDone(x) == x.rounds = 0 \/ x.passes >= 2

RECURSIVE FullBiddingLoop(_, _)
FullBiddingLoop(frontier, done) ==
    IF frontier = {} THEN done
    ELSE LET exits == {x \in frontier : LoopDone(x)}
         IN  FullBiddingLoop(UNION {FullBiddingStep(x) : x \in frontier \ exits},
                             done \cup {x.db : x \in exits})

\* AuctionEngine.simulate_full_bidding(player_entry, user_team_id)
simulate_full_bidding(db) ==
    FullBiddingLoop({[db |-> db, rounds |-> MaxRoundsFull, passes |-> 0]}, {})

\* run_competitive_ai_bidding: prob = min(1.0, max(0.2, 1 - 0.7 * ratio) + 0.25)
\* is 1.0 exactly when the team has the role need and ratio <= 5/14.
CompetitiveCertain(db, pid, team_id, next_bid, max_val) ==
    /\ HasRoleNeed(db.players[pid], analyze_team_needs(db.teamStates[team_id]))
    /\ next_bid <= 5 * (max_val \div 14) + (5 * (max_val % 14)) \div 14

\* One iteration of run_competitive_ai_bidding's loop under the valuations
\* vals drawn before the loop.
CompetitiveStep(x, pid, vals) ==
    LET db == x.db
        next_bid == get_next_bid_amount(db.auction.current_bid)
        eligible == {t \in DOMAIN vals :
                        /\ t # db.auction.current_bidder_team_id
                        /\ CanAfford(db, pid, t, next_bid)
                        /\ ~(next_bid > vals[t])}
        certain == {t \in eligible :
                       CompetitiveCertain(db, pid, t, next_bid, vals[t])}
        bid(t) == IF place_bid_ok(db, t, next_bid)
                  THEN [db |-> place_bid(db, t, pid, next_bid),
                        rounds |-> x.rounds - 1, passes |-> 0]
                  ELSE [db |-> db, rounds |-> x.rounds - 1,
                        passes |-> x.passes + 1]
    IN  {bid(t) : t \in eligible}
            \cup (IF certain = {}
                  THEN {[db |-> db, rounds |-> x.rounds - 1,
                         passes |-> x.passes + 1]}
                  ELSE {})

RECURSIVE CompetitiveLoop(_, _, _, _)
CompetitiveLoop(frontier, done, pid, vals) ==
    IF frontier = {} THEN done
    ELSE LET exits == {x \in frontier : LoopDone(x)}
         IN  CompetitiveLoop(
                UNION {CompetitiveStep(x, pid, vals) : x \in frontier \ exits},
                done \cup {x.db : x \in exits}, pid, vals)

\* AuctionEngine.run_competitive_ai_bidding(player_entry, exclude_team_id):
\* the databases the call can leave.  exclude_team_id = None excludes nobody.
run_competitive_ai_bidding(db, o, exclude_team_id) ==
    LET pid == db.entries[o].player_id
        bidders == {t \in Teams : t # exclude_team_id}
    IN  UNION {CompetitiveLoop(
                  {[db |-> db, rounds |-> MaxRoundsCompetitive, passes |-> 0]}, {},
                  pid, [t \in bidders |-> calculate_player_value(db, pid, t, va[t])])
               : va \in [bidders -> Variances]}

\* AuctionEngine._get_available_players_in_category, as the sequence of
\* entries in auction_order.
RECURSIVE AvailableInCategory(_, _, _)
AvailableInCategory(db, category, o) ==
    IF o > Len(db.entries) THEN <<>>
    ELSE (IF db.entries[o].status = "available" /\ db.entries[o].category = category
          THEN <<o>> ELSE <<>>) \o AvailableInCategory(db, category, o + 1)

\* AuctionEngine.quick_pass_player(player_entry, exclude_team_id)
quick_pass_player(db, o, exclude_team_id) ==
    {finalize_player(d, o) : d \in run_competitive_ai_bidding(db, o, exclude_team_id)}

\* AuctionEngine.auction_category_ai_only(category, exclude_team_id), as a
\* fold over the entry list read at the start of the call.
RECURSIVE AuctionEntries(_, _, _)
AuctionEntries(dbs, list, exclude_team_id) ==
    IF list = <<>> THEN dbs
    ELSE AuctionEntries(
            UNION {quick_pass_player(start_bidding(d, Head(list)), Head(list),
                                     exclude_team_id) : d \in dbs},
            Tail(list), exclude_team_id)

auction_category_ai_only(db, category, exclude_team_id) ==
    AuctionEntries({db}, AvailableInCategory(db, category, 1), exclude_team_id)

\* AuctionEngine.is_auction_complete
is_auction_complete(db) ==
    \A o \in DOMAIN db.entries : db.entries[o].status # "available"

\* AuctionEngine.complete_auction
complete_auction(db) == [db EXCEPT !.auction.status = "completed"]

(***************************************************************************)
(* The auction endpoints of app/api/auction.py.  Each endpoint is one      *)
(* action.  A request that fails with an HTTP error writes nothing: it is  *)
(* no step of the model, except for bid and finalize-player, whose         *)
(* failures lastReq records.                                               *)
(***************************************************************************)
Cur ==
    [players |-> players, auction |-> auction, entries |-> entries,
     teamStates |-> teamStates, bids |-> bids]

Commit(db) ==
    /\ players' = db.players
    /\ auction' = db.auction
    /\ entries' = db.entries
    /\ teamStates' = db.teamStates
    /\ bids' = db.bids

Settled == {"sold", "unsold"}

\* The entries a request moved to Sold or Unsold.
Finalised(db1, db2) ==
    {o \in DOMAIN db2.entries :
        /\ db2.entries[o].status \in Settled
        /\ o \in DOMAIN db1.entries => db1.entries[o].status \notin Settled}

\* The state outside the sequential auction.
notAuctionVars == <<reqs, outsideAuctionVars>>

Served(op, db) ==
    /\ Commit(db)
    /\ lastReq' = [op |-> op, ok |-> TRUE, finalised |-> Finalised(Cur, db)]
    /\ UNCHANGED notAuctionVars

Rejected(op) ==
    /\ lastReq' = [op |-> op, ok |-> FALSE, finalised |-> {}]
    /\ UNCHANGED <<players, auction, entries, teamStates, bids, career>>
    /\ UNCHANGED notAuctionVars

\* The writes every endpoint makes when the auction finishes.
AuctionFinished ==
    career' = [career EXCEPT !.status = "pre_season", !.phase = "league_stage",
                             !.auction_completed = TRUE]

ValidCategories == {"marquee", "batsmen", "bowlers", "all_rounders", "wicket_keepers"}

\* POST /{career_id}/start
StartAuction ==
    LET ids == {i \in DOMAIN players : players[i].team_id = None}
    IN  /\ ~(auction.status # "not_started")
        /\ ~(ids = {})
        /\ Served("start", initialize_auction(Cur, ids))
        /\ career' = [career EXCEPT !.status = "auction", !.phase = "auction"]

\* POST /{career_id}/next-player
next_player(db) ==
    IF get_next_player(db) = None THEN complete_auction(db)
    ELSE start_bidding(db, get_next_player(db))

NextPlayer ==
    /\ ~(auction.status # "in_progress")
    /\ Served("next_player", next_player(Cur))
    /\ IF get_next_player(Cur) = None THEN AuctionFinished ELSE UNCHANGED career

\* POST /{career_id}/bid: the checks before engine.place_bid, then its own.
place_user_bid_ok(db) ==
    LET state == db.teamStates[UserTeam]
        player == db.players[db.auction.current_player_id]
        next_bid == get_next_bid_amount(db.auction.current_bid)
    IN  /\ db.auction.status = "in_progress"
        /\ db.auction.current_player_id # None
        /\ ~(next_bid > max_bid_possible(state))
        /\ ~(player.is_overseas /\ state.overseas_players >= MaxOverseas)
        /\ ~(state.total_players >= MaxSquadSize)
        /\ db.auction.current_bidder_team_id # UserTeam
        /\ place_bid_ok(db, UserTeam, next_bid)

place_user_bid(db) ==
    place_bid(db, UserTeam, db.auction.current_player_id,
              get_next_bid_amount(db.auction.current_bid))

PlaceUserBid ==
    IF ~place_user_bid_ok(Cur) THEN Rejected("bid")
    ELSE Served("bid", place_user_bid(Cur)) /\ UNCHANGED career

\* POST /{career_id}/pass: two checks, no write.
PassBidding ==
    /\ ~(auction.status # "in_progress")
    /\ ~(auction.current_player_id = None)
    /\ Served("pass", Cur)
    /\ UNCHANGED career

\* POST /{career_id}/simulate-bidding
SimulateBiddingRound ==
    /\ ~(auction.status # "in_progress")
    /\ ~(auction.current_player_id = None)
    /\ \E db \in run_bidding_round(Cur, FALSE) : Served("simulate_bidding", db)
    /\ UNCHANGED career

\* POST /{career_id}/finalize-player
FinalizeCurrentPlayer ==
    IF auction.status # "in_progress" \/ auction.current_player_id = None
    THEN Rejected("finalize")
    ELSE /\ Served("finalize",
                   finalize_player(Cur, EntryOf(Cur, auction.current_player_id)))
         /\ UNCHANGED career

\* POST /{career_id}/skip-category/{category}: the current player is
\* finished first when it is in bidding and of the category, then every
\* available player of the category is auctioned.
skip_category(db, category) ==
    LET o == EntryOf(db, db.auction.current_player_id)
        first == IF /\ db.auction.current_player_id # None
                    /\ o # None
                    /\ db.entries[o].status = "in_bidding"
                    /\ db.entries[o].category = category
                 THEN {finalize_player(d, o) :
                          d \in run_competitive_ai_bidding(db, o, None)}
                 ELSE {db}
        after == UNION {auction_category_ai_only(d, category, None) : d \in first}
    IN  {IF is_auction_complete(d) THEN complete_auction(d) ELSE d : d \in after}

SkipCategory(category) ==
    /\ ~(auction.status # "in_progress")
    /\ ~(category \notin ValidCategories)
    /\ \E db \in skip_category(Cur, category) :
          /\ Served("skip_category", db)
          /\ IF db.auction.status = "completed" THEN AuctionFinished
             ELSE UNCHANGED career

\* POST /{career_id}/quick-pass
QuickPass ==
    /\ ~(auction.status # "in_progress")
    /\ ~(auction.current_player_id = None)
    /\ \E db \in quick_pass_player(Cur, EntryOf(Cur, auction.current_player_id),
                                   None) : Served("quick_pass", db)
    /\ UNCHANGED career

(***************************************************************************)
(* Initial states of the auction.  A career is created with its auction    *)
(* not started (create_career).  A second initial state is the auction     *)
(* after the user's team has bought MinSquadSize players: it is        *)
(* computed by running the endpoints above (next-player, then simulate-bidding *)
(* and bid in turn, then finalize-player), so it is a state the   *)
(* program reaches.                                                        *)
(***************************************************************************)
NumHistory == MinSquadSize

\* The price at which the user stops raising in the replayed history.
HistoryPrice == 50 * 1000000

HistoryPool == [i \in 1..NumHistory |-> NewPlayer("batsman", 80, FALSE, 20000000)]

LivePool ==
    << NewPlayer("batsman", 60, FALSE, 2000000),
       NewPlayer("batsman", 60, TRUE, 2000000) >>

NewCareerDb(pool) ==
    [players |-> pool, auction |-> NewAuction, entries |-> <<>>,
     teamStates |-> <<>>, bids |-> <<>>]

\* simulate-bidding and bid in turn until the user holds the bid at
\* HistoryPrice.
RECURSIVE ReplayLadder(_)
ReplayLadder(db) ==
    LET next == IF db.auction.current_bidder_team_id \in {None, UserTeam}
                THEN CHOOSE d \in run_bidding_round(db, FALSE) :
                        d.auction.current_bidder_team_id \notin {None, UserTeam}
                ELSE CHOOSE d \in {place_user_bid(db)} : place_user_bid_ok(db)
    IN  IF db.auction.current_bidder_team_id = UserTeam
              /\ db.auction.current_bid >= HistoryPrice
        THEN db
        ELSE IF next.auction.current_bid = db.auction.current_bid THEN db
        ELSE ReplayLadder(next)

RECURSIVE Replay(_, _)
Replay(db, k) ==
    LET d == ReplayLadder(next_player(db))
        next == finalize_player(d, EntryOf(d, d.auction.current_player_id))
    IN  IF k = 0 THEN db
        ELSE IF next.auction.players_sold = db.auction.players_sold THEN db
        ELSE Replay(next, k - 1)

LateDb ==
    LET pool == HistoryPool \o SubSeq(LivePool, 1, 1)
    IN  Replay(initialize_auction(NewCareerDb(pool), DOMAIN pool), NumHistory)

DbIs(db) ==
    /\ players = db.players
    /\ auction = db.auction
    /\ entries = db.entries
    /\ teamStates = db.teamStates
    /\ bids = db.bids

\* No request is in flight.
Threads == 1..NumThreads

IdleReq ==
    [pc |-> "idle", op |-> "", served |-> 0, ok |-> FALSE, settled |-> FALSE,
     wrote |-> FALSE, snap |-> <<>>]

NoRequests == reqs = [r \in Threads |-> IdleReq]

InitAuctionDb ==
    \/ /\ DbIs(NewCareerDb(LivePool))
       /\ career = [status |-> "pre_auction", phase |-> "not_started",
                    auction_completed |-> FALSE]
       /\ lastReq = [op |-> "create_career", ok |-> TRUE, finalised |-> {}]
    \/ /\ DbIs(LateDb)
       /\ career = [status |-> "auction", phase |-> "auction",
                    auction_completed |-> FALSE]
       /\ lastReq = [op |-> "finalize", ok |-> TRUE, finalised |-> {NumHistory}]

NoCareers ==
    careerCount = 0 /\ playerTbl = <<>> /\ auctionTbl = <<>> /\ careerTbl = <<>>

OutsideAuctionIdle == NoCareers /\ NoMatches

InitAuction == InitAuctionDb /\ NoRequests /\ OutsideAuctionIdle

NextAuction ==
    \/ StartAuction
    \/ NextPlayer
    \/ PlaceUserBid
    \/ PassBidding
    \/ SimulateBiddingRound
    \/ FinalizeCurrentPlayer
    \/ \E category \in ValidCategories \cup {"spinners"} : SkipCategory(category)
    \/ QuickPass

SpecAuction == InitAuction /\ [][NextAuction]_vars

\* C1: after any sequence of auction operations every team's remaining
\* budget is at least zero.
C1_BudgetNeverNegative ==
    \A t \in DOMAIN teamStates : teamStates[t].remaining_budget >= 0

\* C33: at most one auction entry is in bidding, and an entry in bidding is
\* the entry of the auction's current player.
C33_OnlyCurrentPlayerInBidding ==
    LET in_bidding == {o \in DOMAIN entries : entries[o].status = "in_bidding"}
    IN  /\ Cardinality(in_bidding) <= 1
        /\ \A o \in in_bidding : entries[o].player_id = auction.current_player_id

\* C34: when the auction is completed every entry is sold or unsold, and
\* players_sold + players_unsold = total_players.
C34_CompletedAuctionSettled ==
    auction.status = "completed" =>
        /\ \A o \in DOMAIN entries : entries[o].status \in {"sold", "unsold"}
        /\ auction.players_sold + auction.players_unsold = auction.total_players

\* C38: when the auction is completed every team has at least 18 players
\* (the minimum squad size).
C38_MinimumSquadWhenCompleted ==
    auction.status = "completed" =>
        \A t \in DOMAIN teamStates : teamStates[t].total_players >= MinSquadSize

\* C2: no player finalised during a skip_category request is sold to the
\* user's team.
C2_SkipNeverSellsToUser ==
    lastReq.op = "skip_category" =>
        \A o \in lastReq.finalised :
            ~(entries[o].status = "sold" /\ entries[o].sold_to_team_id = UserTeam)

(***************************************************************************)
(* Concurrent auction requests.  The endpoints are plain def functions,    *)
(* which the server runs in a thread pool, each with its own database      *)
(* session (get_db) and no lock.  A request reads the Auction row          *)
(* (get_current_auction), then builds the engine, which loads the team     *)
(* states, and reads the player and its entry, then runs the engine call   *)
(* on the rows it holds and commits.  The commit writes the columns the    *)
(* session changed, with the values the session computed.                  *)
(***************************************************************************)
MaxRequests == 2

ConcurrentOps == {"bid", "simulate_bidding", "finalize"}

\* The columns of a row the session changed, written over the stored row.
MergeRow(held, new, stored) ==
    [f \in DOMAIN stored |-> IF new[f] # held[f] THEN new[f] ELSE stored[f]]

\* session.commit(): UPDATE of the changed columns, INSERT of the new bids.
CommitSession(held, new) ==
    /\ auction' = MergeRow(held.auction, new.auction, auction)
    /\ teamStates' = [t \in DOMAIN teamStates |->
                        MergeRow(held.teamStates[t], new.teamStates[t], teamStates[t])]
    /\ entries' = [o \in DOMAIN entries |->
                        MergeRow(held.entries[o], new.entries[o], entries[o])]
    /\ players' = [i \in DOMAIN players |->
                        MergeRow(held.players[i], new.players[i], players[i])]
    /\ bids' = new.bids

\* get_current_auction and the two checks every one of these endpoints
\* makes on the row it read.
BeginRequest(r, op) ==
    /\ reqs[r].pc \in {"idle", "done"}
    /\ reqs[r].served < MaxRequests
    /\ reqs' = [reqs EXCEPT ![r] =
                  IF auction.status # "in_progress" \/ auction.current_player_id = None
                  THEN [IdleReq EXCEPT !.pc = "done", !.op = op,
                                       !.served = reqs[r].served + 1]
                  ELSE [IdleReq EXCEPT !.pc = "auction_read", !.op = op,
                                       !.served = reqs[r].served + 1,
                                       !.snap = [auction |-> auction]]]
    /\ UNCHANGED <<players, auction, entries, teamStates, bids, career, lastReq>>
    /\ UNCHANGED outsideAuctionVars

\* AuctionEngine(db, auction) -> _load_team_states, and the queries for the
\* user's team, the player and its entry.
LoadEngine(r) ==
    /\ reqs[r].pc = "auction_read"
    /\ reqs' = [reqs EXCEPT ![r].pc = "loaded",
                            ![r].snap = [auction |-> reqs[r].snap.auction,
                                         teamStates |-> teamStates,
                                         entries |-> entries,
                                         players |-> players]]
    /\ UNCHANGED <<players, auction, entries, teamStates, bids, career, lastReq>>
    /\ UNCHANGED outsideAuctionVars

\* The rows the session holds; auction_bids is queried when it is needed.
Held(r) ==
    [players |-> reqs[r].snap.players, auction |-> reqs[r].snap.auction,
     entries |-> reqs[r].snap.entries, teamStates |-> reqs[r].snap.teamStates,
     bids |-> bids]

Finish(r, held, new, ok, settled) ==
    /\ CommitSession(held, new)
    /\ reqs' = [reqs EXCEPT
                  ![r].pc = "done", ![r].ok = ok, ![r].settled = settled,
                  ![r].wrote = (<<players, auction, entries, teamStates, bids>>'
                                   # <<players, auction, entries, teamStates, bids>>)]
    /\ UNCHANGED <<career, lastReq>>
    /\ UNCHANGED outsideAuctionVars

\* place_user_bid from its affordability checks on.
ExecBid(r) ==
    /\ reqs[r].pc = "loaded" /\ reqs[r].op = "bid"
    /\ IF place_user_bid_ok(Held(r))
       THEN Finish(r, Held(r), place_user_bid(Held(r)), TRUE, FALSE)
       ELSE Finish(r, Held(r), Held(r), FALSE, FALSE)

\* simulate_bidding_round from engine.run_bidding_round on.
ExecSimulateBidding(r) ==
    /\ reqs[r].pc = "loaded" /\ reqs[r].op = "simulate_bidding"
    /\ \E d \in run_bidding_round(Held(r), FALSE) : Finish(r, Held(r), d, TRUE, FALSE)

\* finalize_current_player from engine.finalize_player on; settled records
\* whether the entry the engine was handed was already Sold or Unsold.
ExecFinalize(r) ==
    LET o == EntryOf(Held(r), reqs[r].snap.auction.current_player_id)
    IN  /\ reqs[r].pc = "loaded" /\ reqs[r].op = "finalize"
        /\ Finish(r, Held(r), finalize_player(Held(r), o), TRUE,
                  reqs[r].snap.entries[o].status \in Settled)

\* The auction with its first player up for bidding (start, next-player).
BiddingDb == next_player(initialize_auction(NewCareerDb(LivePool), DOMAIN LivePool))

InitAuctionConc ==
    /\ DbIs(BiddingDb)
    /\ career = [status |-> "auction", phase |-> "auction",
                 auction_completed |-> FALSE]
    /\ lastReq = [op |-> "next_player", ok |-> TRUE, finalised |-> {}]
    /\ NoRequests
    /\ OutsideAuctionIdle

NextAuctionConc ==
    \/ \E r \in Threads, op \in ConcurrentOps : BeginRequest(r, op)
    \/ \E r \in Threads : LoadEngine(r)
    \/ \E r \in Threads : ExecBid(r)
    \/ \E r \in Threads : ExecSimulateBidding(r)
    \/ \E r \in Threads : ExecFinalize(r)

SpecAuctionConc == InitAuctionConc /\ [][NextAuctionConc]_vars

\* C8: state-changing requests on one career never interleave; two
\* concurrent bid requests are never both accepted at the same amount.
C8_NoTwoBidsAtSameAmount ==
    \A i, j \in DOMAIN bids :
        (i # j /\ bids[i].player_id = bids[j].player_id)
            => bids[i].bid_amount # bids[j].bid_amount

\* C10: finalize_player on an entry that is already Sold or Unsold fails
\* and writes nothing.
C10_FinalizeSettledFailsWithoutWrite ==
    \A r \in Threads :
        (reqs[r].pc = "done" /\ reqs[r].op = "finalize" /\ reqs[r].settled)
            => (~reqs[r].ok /\ ~reqs[r].wrote)

(***************************************************************************)
(* Several careers in one database.  create_career adds the career's       *)
(* teams and a generated player pool; the players table has no career      *)
(* column, and the auction endpoints select the players to auction by      *)
(* team_id alone.  origin records, for the model only, the career whose    *)
(* creation generated a player.  Bidding is reduced to its result: the     *)
(* entry is sold to a team of the career or left unsold.                   *)
(***************************************************************************)
MAX_CAREERS == 3

\* Players generated for a career (generate_player_pool), and the number
\* of careers the exploration creates.
PoolSize == 1

CareersExplored == 2

Careers == 1..careerCount

\* Team ids are allotted in creation order, NumTeams to a career.
TeamIdsOf(c) == {(c - 1) * NumTeams + k : k \in 1..NumTeams}

TeamCareer(t) == ((t - 1) \div NumTeams) + 1

outsideCareersVars ==
    <<players, auction, entries, teamStates, bids, career, lastReq, reqs, matchVars>>

\* db.query(Player).filter_by(team_id=None).all()
UnsoldPlayerIds == {i \in DOMAIN playerTbl : playerTbl[i].team_id = None}

\* initialize_auction as far as the entries go.
InitializedAuction(ids) ==
    [status |-> "in_progress",
     entries |-> [i \in ids |-> [status |-> "available", sold_to_team_id |-> None]]]

\* POST /career/new
CreateCareer ==
    /\ ~(careerCount >= MAX_CAREERS)
    /\ careerCount < CareersExplored
    /\ careerCount' = careerCount + 1
    /\ playerTbl' = playerTbl \o [i \in 1..PoolSize |->
                                    [origin |-> careerCount + 1, team_id |-> None]]
    /\ auctionTbl' = Append(auctionTbl, [status |-> "not_started", entries |-> <<>>])
    /\ careerTbl' = Append(careerTbl, [user_id |-> 1])
    /\ UNCHANGED outsideCareersVars

\* POST /{career_id}/start for career c
StartCareerAuction(c) ==
    /\ ~(auctionTbl[c].status # "not_started")
    /\ ~(UnsoldPlayerIds = {})
    /\ auctionTbl' = [auctionTbl EXCEPT ![c] = InitializedAuction(UnsoldPlayerIds)]
    /\ UNCHANGED <<careerCount, playerTbl, careerTbl>>
    /\ UNCHANGED outsideCareersVars

\* An entry settled to team t of the career, or unsold when t is None.
SettleEntry(tbl, i, t) ==
    [tbl EXCEPT ![i] = [status |-> IF t = None THEN "unsold" ELSE "sold",
                        sold_to_team_id |-> t]]

\* next-player, bidding and finalize-player for one entry of career c.
AuctionOnePlayer(c, i, t) ==
    /\ auctionTbl[c].status = "in_progress"
    /\ i \in DOMAIN auctionTbl[c].entries
    /\ auctionTbl[c].entries[i].status = "available"
    /\ auctionTbl' = [auctionTbl EXCEPT ![c].entries = SettleEntry(@, i, t)]
    /\ playerTbl' = IF t = None THEN playerTbl
                    ELSE [playerTbl EXCEPT ![i].team_id = t]
    /\ UNCHANGED <<careerCount, careerTbl>>
    /\ UNCHANGED outsideCareersVars

\* POST /{career_id}/auto-complete for career c: starts the auction if it
\* has not started, then settles every available entry; won maps each of
\* them to the team that wins it, or to None.
AutoCompleteCareer(c) ==
    LET started == IF auctionTbl[c].status = "not_started"
                   THEN InitializedAuction(UnsoldPlayerIds) ELSE auctionTbl[c]
        avail == {i \in DOMAIN started.entries : started.entries[i].status = "available"}
    IN  /\ auctionTbl[c].status # "completed"
        /\ \E won \in [avail -> TeamIdsOf(c) \cup {None}] :
              /\ auctionTbl' =
                    [auctionTbl EXCEPT ![c] =
                        [status |-> "completed",
                         entries |-> [i \in DOMAIN started.entries |->
                                         IF i \in avail
                                         THEN SettleEntry(started.entries, i, won[i])[i]
                                         ELSE started.entries[i]]]]
              /\ playerTbl' = [i \in DOMAIN playerTbl |->
                                 IF i \in avail /\ won[i] # None
                                 THEN [playerTbl[i] EXCEPT !.team_id = won[i]]
                                 ELSE playerTbl[i]]
        /\ UNCHANGED <<careerCount, careerTbl>>
        /\ UNCHANGED outsideCareersVars

InitCareers ==
    /\ NoCareers
    /\ DbIs(NewCareerDb(LivePool))
    /\ career = [status |-> "pre_auction", phase |-> "not_started",
                 auction_completed |-> FALSE]
    /\ lastReq = [op |-> "create_career", ok |-> TRUE, finalised |-> {}]
    /\ NoRequests
    /\ NoMatches

NextCareers ==
    \/ CreateCareer
    \/ \E c \in Careers : StartCareerAuction(c)
    \/ \E c \in Careers, i \in DOMAIN playerTbl :
          \E t \in TeamIdsOf(c) \cup {None} : AuctionOnePlayer(c, i, t)
    \/ \E c \in Careers : AutoCompleteCareer(c)

SpecCareers == InitCareers /\ [][NextCareers]_vars

\* C9: careers share no mutable state: a career's auction holds only that
\* career's players, and a player is only ever owned by a team of its own
\* career.
C9_CareersSeparate ==
    /\ \A c \in Careers : \A i \in DOMAIN auctionTbl[c].entries :
          playerTbl[i].origin = c
    /\ \A i \in DOMAIN playerTbl :
          playerTbl[i].team_id # None => TeamCareer(playerTbl[i].team_id) = playerTbl[i].origin

(***************************************************************************)
(* The match engine of app/engine/match_engine.py.  An innings is a        *)
(* record of the InningsState fields the scoring uses.  Players are        *)
(* numbered 1..11 within their XI, in descending order of batting skill;   *)
(* batter_innings and bowler_spells are total over the XI, a player with   *)
(* no BatterInnings or BowlerSpell object having 0 runs or 0 overs.        *)
(* fall_of_wickets is history: the wickets added to innings.wickets, by    *)
(* the over they fell in.                                                  *)
(* repeated_bowler and legal_deliveries are history too: some delivery of *)
(* the innings was bowled by the bowler who completed the over before;     *)
(* the deliveries of the innings that were neither wides nor no-balls.     *)
(***************************************************************************)
OversPerInnings == 20

BallsPerOver == 6

AllOut == 10

MaxOversPerBowler == 4

MaxWicketsPerOver == 3

Opponent == UserTeam + 1

\* The XI both teams field: the least bowling the validator accepts.
PlayingXI ==
    << "batsman", "batsman", "batsman", "batsman", "batsman", "wicket_keeper",
       "all_rounder", "bowler", "bowler", "bowler", "bowler" >>

\* PlayingXIValidator.validate (overseas players are not modelled).
validate(xi) ==
    LET count(role) == Cardinality({i \in DOMAIN xi : xi[i] = role})
    IN  /\ Len(xi) = 11
        /\ count("wicket_keeper") # 0
        /\ (count("bowler") >= 5 \/ (count("bowler") >= 4 /\ count("all_rounder") >= 1))

BallOutcome(runs, is_wicket, is_wide, is_no_ball) ==
    [runs |-> runs, is_wicket |-> is_wicket, is_wide |-> is_wide,
     is_no_ball |-> is_no_ball]

\* The outcomes calculate_ball_outcome can return.
calculate_ball_outcome ==
    {BallOutcome(r, FALSE, FALSE, FALSE) : r \in {0, 1, 2, 3, 4, 6}}
        \cup {BallOutcome(0, TRUE, FALSE, FALSE)}

\* The outcomes _simulate_ball can return: a wide, a no-ball hit for r, or
\* the outcome of the contest between batter and bowler.
simulate_ball ==
    {BallOutcome(1, FALSE, TRUE, FALSE)}
        \cup {BallOutcome(r + 1, FALSE, FALSE, TRUE) : r \in {0, 1, 2, 4, 6}}
        \cup calculate_ball_outcome

\* setup_innings: bowlers bat last, then by batting skill.
batting_order(xi) ==
    SelectSeq([i \in DOMAIN xi |-> i], LAMBDA i : xi[i] # "bowler")
        \o SelectSeq([i \in DOMAIN xi |-> i], LAMBDA i : xi[i] = "bowler")

\* The tuple of n zeros.
RECURSIVE Zeros(_)
Zeros(n) == IF n = 0 THEN <<>> ELSE Append(Zeros(n - 1), 0)

setup_innings(batting_team_id, target) ==
    [batting_team_id |-> batting_team_id, target |-> target,
     total_runs |-> 0, wickets |-> 0, overs |-> 0, balls |-> 0, extras |-> 0,
     batter_innings |-> Zeros(Len(PlayingXI)),
     bowler_spells |-> Zeros(Len(PlayingXI)),
     striker_id |-> batting_order(PlayingXI)[1],
     non_striker_id |-> batting_order(PlayingXI)[2],
     current_bowler_id |-> None, last_bowler_id |-> None,
     next_batter_index |-> 2,
     fall_of_wickets |-> Zeros(OversPerInnings),
     repeated_bowler |-> FALSE, legal_deliveries |-> 0]

is_innings_complete(innings) ==
    \/ innings.wickets >= AllOut
    \/ innings.overs >= OversPerInnings
    \/ (innings.target # None /\ innings.total_runs >= innings.target)

\* The bowlers and all-rounders with overs left, the last bowler included.
select_bowler_with_overs_left(innings) ==
    {p \in DOMAIN PlayingXI :
        /\ PlayingXI[p] \in {"bowler", "all_rounder"}
        /\ ~(innings.bowler_spells[p] >= MaxOversPerBowler)}

\* select_bowler: the bowlers random.choices can return.
select_bowler(innings) ==
    LET bowlers == {p \in DOMAIN PlayingXI : PlayingXI[p] \in {"bowler", "all_rounder"}}
        available == {b \in bowlers :
                        /\ ~(innings.bowler_spells[b] >= MaxOversPerBowler)
                        /\ ~(b = innings.last_bowler_id)}
        except_last == {b \in bowlers : b # innings.last_bowler_id}
    IN  IF available # {} THEN available
        ELSE IF except_last # {} THEN except_last
        ELSE bowlers

\* Every delivery but a wide.
not_a_wide(outcome) == ~outcome.is_wide

\* The test play_ball and simulate_over make before innings.balls += 1.
counts_as_ball(outcome) == ~outcome.is_wide /\ ~outcome.is_no_ball

\* The updates play_ball and simulate_over make for one delivery by the
\* current bowler; is_wicket tells whether the outcome counts as a wicket.
deliver(innings, outcome, is_wicket) ==
    LET bowler == innings.current_bowler_id
        legal == counts_as_ball(outcome)
        scored == [innings EXCEPT
                     !.balls = IF legal THEN @ + 1 ELSE @,
                     !.batter_innings[innings.striker_id] =
                         IF legal THEN @ + outcome.runs ELSE @,
                     !.extras = IF outcome.is_wide \/ outcome.is_no_ball
                                THEN @ + 1 ELSE @,
                     !.total_runs = @ + outcome.runs,
                     !.repeated_bowler = @ \/ bowler = innings.last_bowler_id,
                     !.legal_deliveries =
                         IF ~outcome.is_wide /\ ~outcome.is_no_ball THEN @ + 1 ELSE @]
        out == [scored EXCEPT !.wickets = @ + 1,
                              !.fall_of_wickets[innings.overs + 1] = @ + 1]
        after == IF is_wicket
                 THEN IF out.next_batter_index < Len(batting_order(PlayingXI))
                      THEN [out EXCEPT
                              !.striker_id =
                                  batting_order(PlayingXI)[out.next_batter_index + 1],
                              !.next_batter_index = @ + 1]
                      ELSE out
                 ELSE IF outcome.runs % 2 = 1
                 THEN [scored EXCEPT !.striker_id = scored.non_striker_id,
                                     !.non_striker_id = scored.striker_id]
                 ELSE scored
    IN  IF after.balls >= BallsPerOver
        THEN [after EXCEPT !.overs = @ + 1, !.balls = 0,
                           !.bowler_spells[bowler] = @ + 1,
                           !.last_bowler_id = bowler,
                           !.current_bowler_id = None,
                           !.striker_id = after.non_striker_id,
                           !.non_striker_id = after.striker_id]
        ELSE after

\* Wides and no-balls explored in one innings by simulate_over.
MaxExtras == 1

\* The deliveries explored inside simulate_over: a dot ball and a wicket.
OverOutcomes == {o \in simulate_ball : ~o.is_wide /\ ~o.is_no_ball /\ o.runs = 0}

\* The while loop of simulate_over over the loop states s, from an over
\* count of overs0; it ends at the over's end (break), after six legal
\* balls of this call, or when the innings is complete.
RECURSIVE OverLoop(_, _, _, _)
OverLoop(frontier, done, outcomes, overs0) ==
    IF frontier = {} THEN done
    ELSE LET step(s, o) ==
                 LET is_wicket == o.is_wicket /\ ~(s.wickets_this_over >= MaxWicketsPerOver)
                 IN  [innings |-> deliver(s.innings, o, is_wicket),
                      balls_bowled |-> IF ~o.is_wide /\ ~o.is_no_ball
                                       THEN s.balls_bowled + 1 ELSE s.balls_bowled,
                      wickets_this_over |-> IF is_wicket THEN s.wickets_this_over + 1
                                            ELSE s.wickets_this_over]
             next == UNION {{step(s, o) : o \in
                               {x \in outcomes : (x.is_wide \/ x.is_no_ball)
                                                    => s.innings.extras < MaxExtras}} :
                            s \in frontier}
             running == {s \in next :
                           /\ s.balls_bowled < BallsPerOver
                           /\ ~is_innings_complete(s.innings)
                           /\ s.innings.overs = overs0}
         IN  OverLoop(running, done \cup {s.innings : s \in next \ running},
                      outcomes, overs0)

simulate_over(innings, outcomes) ==
    UNION {LET start == [innings EXCEPT !.current_bowler_id = b]
           IN  IF is_innings_complete(start) THEN {start}
               ELSE OverLoop({[innings |-> start, balls_bowled |-> 0,
                               wickets_this_over |-> 0]}, {}, outcomes, start.overs) :
           b \in IF innings.current_bowler_id # None
                 THEN {innings.current_bowler_id} ELSE select_bowler(innings)}

RECURSIVE InningsLoop(_, _, _)
InningsLoop(frontier, done, outcomes) ==
    IF frontier = {} THEN done
    ELSE LET next == UNION {simulate_over(i, outcomes) : i \in frontier}
         IN  InningsLoop({i \in next : ~is_innings_complete(i)},
                         done \cup {i \in next : is_innings_complete(i)}, outcomes)

simulate_innings(innings, outcomes) ==
    IF is_innings_complete(innings) THEN {innings}
    ELSE InningsLoop({innings}, {}, outcomes)

(***************************************************************************)
(* The cached engine of an interactive match (app/api/match.py) and the    *)
(* season's fixtures (app/engine/season_engine.py).  An engine is          *)
(* [innings1, innings2, current, user_team_id]; innings2 is None until     *)
(* the second innings is set up, and current tells which of the two        *)
(* current_innings is.  A season database is [fixtures, career].  The      *)
(* interactive requests are made for the user's team's fixture, between    *)
(* UserTeam and Opponent, and for a fixture between two other teams;       *)
(* Match rows are not modelled, and the standings only further below.      *)
(***************************************************************************)
LeagueTeams == 8

\* generate_league_fixtures: every pair of teams meets twice.  The
\* matchups, home and away, in the order of the loops.
RECURSIVE MatchupsFrom(_, _)
MatchupsFrom(i, j) ==
    IF i >= LeagueTeams THEN <<>>
    ELSE IF j > LeagueTeams THEN MatchupsFrom(i + 1, i + 2)
    ELSE << <<i, j>>, <<j, i>> >> \o MatchupsFrom(i, j + 1)

\* One outcome of random.shuffle(matchups): the list dealt from position
\* ShuffleCut in steps of ShuffleStride.
ShuffleCut == 19

ShuffleStride == 11

Shuffled(matchups) ==
    [i \in 1..Len(matchups) |->
        matchups[((ShuffleCut + (i - 1) * ShuffleStride) % Len(matchups)) + 1]]

RECURSIVE Filled(_, _)
Filled(n, v) == IF n = 0 THEN <<>> ELSE Append(Filled(n - 1, v), v)

\* The scheduling loop: the first of the remaining matchups whose teams
\* have rested longest gets the next match number.
RECURSIVE ScheduleLeague(_, _, _)
ScheduleLeague(remaining_matchups, team_last_match, match_number) ==
    LET min_gap(k) == Min(match_number - team_last_match[remaining_matchups[k][1]],
                          match_number - team_last_match[remaining_matchups[k][2]])
        best == CHOOSE k \in DOMAIN remaining_matchups :
                    /\ \A j \in DOMAIN remaining_matchups : min_gap(j) <= min_gap(k)
                    /\ \A j \in 1..(k - 1) : min_gap(j) < min_gap(k)
        team1 == remaining_matchups[best][1]
        team2 == remaining_matchups[best][2]
        rest == [k \in 1..(Len(remaining_matchups) - 1) |->
                    remaining_matchups[IF k < best THEN k ELSE k + 1]]
        last == [t \in DOMAIN team_last_match |->
                    IF t \in {team1, team2} THEN match_number ELSE team_last_match[t]]
    IN  IF remaining_matchups = <<>> THEN <<>>
        ELSE <<[fixture_type |-> "league", status |-> "scheduled",
                team1_id |-> team1, team2_id |-> team2,
                match_number |-> match_number]>>
                 \o ScheduleLeague(rest, last, match_number + 1)

generate_league_fixtures ==
    ScheduleLeague(Shuffled(MatchupsFrom(1, 2)), Filled(LeagueTeams, 0 - 3), 1)

\* The league fixtures still to play in the late season the explorations
\* start from.
LeagueRemaining == 2

LateFixtures ==
    {n \in DOMAIN generate_league_fixtures :
        n > Len(generate_league_fixtures) - LeagueRemaining}

Plays(team_id, n) ==
    team_id \in {generate_league_fixtures[n].team1_id,
                 generate_league_fixtures[n].team2_id}

\* The fixture the interactive requests are made for, and a fixture of the
\* late season the user's team does not play in.
UserFixture == CHOOSE n \in LateFixtures : Plays(UserTeam, n)

NeutralFixture == CHOOSE n \in LateFixtures : ~Plays(UserTeam, n)

\* fixture.team2_id if team1 bats first else fixture.team1_id, the fixture
\* being the one of the two above that the team plays in.
other_team(team_id) ==
    LET fixture == generate_league_fixtures[
                       CHOOSE n \in {UserFixture, NeutralFixture} : Plays(team_id, n)]
    IN  IF fixture.team1_id = team_id THEN fixture.team2_id ELSE fixture.team1_id

current_innings(engine) ==
    IF engine.current = 1 THEN engine.innings1 ELSE engine.innings2

with_innings(engine, innings) ==
    IF engine.current = 1 THEN [engine EXCEPT !.innings1 = innings]
    ELSE [engine EXCEPT !.innings2 = innings]

\* The second innings set up with its first bowler selected, as play_ball,
\* simulate_over_interactive and simulate_innings_interactive each do.
start_second_innings(engine) ==
    LET first == engine.innings1.batting_team_id
        fresh == setup_innings(other_team(first), engine.innings1.total_runs + 1)
    IN  {[engine EXCEPT !.innings2 = [fresh EXCEPT !.current_bowler_id = b],
                        !.current = 2] : b \in select_bowler(fresh)}

\* play_ball up to the end of the over; the empty set when it raises.
play_ball(engine, outcome) ==
    LET started == IF ~is_innings_complete(current_innings(engine)) THEN {engine}
                   ELSE IF engine.current = 1 THEN start_second_innings(engine)
                   ELSE {}
        bowled(e) ==
            LET innings == current_innings(e)
                is_user_batting == IF engine.user_team_id # None
                                   THEN innings.batting_team_id = engine.user_team_id
                                   ELSE FALSE
                ready == IF innings.balls = 0 /\ innings.current_bowler_id = None
                         THEN IF ~is_user_batting THEN {}
                              ELSE {[innings EXCEPT !.current_bowler_id = b] :
                                       b \in select_bowler(innings)}
                         ELSE {innings}
            IN  {with_innings(e, deliver(i, outcome, outcome.is_wicket)) : i \in ready}
    IN  UNION {bowled(e) : e \in started}

\* simulate_over_interactive, and simulate_innings_interactive when
\* simulated is engine.simulate_innings: the engine call on the current
\* innings, then the second innings set up when the first has completed.
simulate_interactive(engine, simulated) ==
    UNION {IF engine.current = 1 /\ is_innings_complete(i)
           THEN start_second_innings(with_innings(engine, i))
           ELSE {with_innings(engine, i)} : i \in simulated}

\* select_bowler_manual; the empty set when it raises.
select_bowler_manual(engine, bowler_id) ==
    LET innings == current_innings(engine)
    IN  IF \/ innings.balls # 0
           \/ bowler_id \notin DOMAIN PlayingXI
           \/ innings.bowler_spells[bowler_id] >= MaxOversPerBowler
           \/ bowler_id = innings.last_bowler_id
        THEN {}
        ELSE {with_innings(engine, [innings EXCEPT !.current_bowler_id = bowler_id])}

\* get_next_fixture: the scheduled fixture of lowest match number, or None.
get_next_fixture(db) ==
    LET scheduled == {n \in DOMAIN db.fixtures : db.fixtures[n].status = "scheduled"}
    IN  IF scheduled = {} THEN None
        ELSE CHOOSE n \in scheduled : \A m \in scheduled : n <= m

is_league_complete(db) ==
    {n \in DOMAIN db.fixtures :
        /\ db.fixtures[n].fixture_type = "league"
        /\ db.fixtures[n].status = "scheduled"} = {}

\* order_by(Fixture.match_number.desc()).first().match_number
last_match_number(rows) ==
    CHOOSE k \in {rows[n].match_number : n \in DOMAIN rows} :
        \A n \in DOMAIN rows : rows[n].match_number <= k

FirstPlayoffNumber == 57

\* The number of the first playoff in a season of 56 league matches.
after_the_league(rows) == FirstPlayoffNumber

\* generate_playoffs: next_match_number
next_match_number(rows) ==
    IF rows # <<>> THEN last_match_number(rows) + 1 ELSE FirstPlayoffNumber

generate_playoffs(db) ==
    [db EXCEPT !.fixtures = @ \o
        << [fixture_type |-> "qualifier_1", status |-> "scheduled",
            match_number |-> next_match_number(db.fixtures)],
           [fixture_type |-> "eliminator", status |-> "scheduled",
            match_number |-> next_match_number(db.fixtures) + 1] >>]

\* The move to the playoffs every endpoint makes when it finds the league
\* complete.
to_playoffs(db) ==
    generate_playoffs([db EXCEPT !.career.phase = "playoffs",
                                 !.career.status = "playoffs"])

\* SeasonEngine.simulate_match, as far as the fixture goes.
simulate_match(db, fixture_id) ==
    [db EXCEPT !.fixtures[fixture_id].status = "completed"]

\* The winner _finalize_match_interactive determines: a team, or None
\* for a tie.
match_winner(engine) ==
    LET target == engine.innings1.total_runs + 1
    IN  IF engine.innings2.total_runs >= target THEN engine.innings2.batting_team_id
        ELSE IF engine.innings2.total_runs < target - 1
        THEN engine.innings1.batting_team_id
        ELSE None

\* _finalize_match_interactive for a league fixture.
finalize_match_interactive(db, fixture_id) ==
    LET done == [db EXCEPT !.fixtures[fixture_id].status = "completed"]
    IN  IF db.fixtures[fixture_id].fixture_type = "league" /\ is_league_complete(done)
        THEN to_playoffs(done) ELSE done

simulate_next_match(db) ==
    LET fixture == get_next_fixture(db)
        done == simulate_match(db, fixture)
    IN  IF db.fixtures[fixture].fixture_type = "league" /\ is_league_complete(done)
        THEN to_playoffs(done) ELSE done

RECURSIVE simulate_all_league_matches(_)
simulate_all_league_matches(db) ==
    LET fixture == get_next_fixture(db)
    IN  IF fixture = None \/ db.fixtures[fixture].fixture_type # "league"
        THEN IF is_league_complete(db) THEN to_playoffs(db) ELSE db
        ELSE simulate_all_league_matches(simulate_match(db, fixture))

(***************************************************************************)
(* The season and match endpoints.  Each endpoint is one action; a         *)
(* request that fails with an HTTP error writes nothing and is no step.    *)
(***************************************************************************)
\* Requests served in one exploration.
MaxMatchRequests == 3

\* simulate-innings is explored with at most this many overs to bowl.
MaxSimulatedOvers == 4

\* The deliveries explored inside simulate_innings: dot balls.
InningsOutcomes == {o \in OverOutcomes : ~o.is_wicket /\ ~o.is_no_ball}

\* The players select-bowler is asked for: a batsman, the all-rounder and
\* a bowler.
ManualBowlers == {1, 7, 8}

\* The deliveries explored by play_ball.
PlayOutcomes == {o \in simulate_ball : o.runs \in {0, 1, 4, 5}}

outsideMatchVars ==
    <<players, auction, entries, teamStates, bids, lastReq, reqs, careersVars,
      standings, playing_xi>>

SeasonDb == [fixtures |-> fixtures, career |-> career]

ServeRequest ==
    /\ served < MaxMatchRequests
    /\ served' = served + 1
    /\ UNCHANGED resultLog
    /\ UNCHANGED outsideMatchVars

ServeSeason(db) ==
    /\ ServeRequest
    /\ fixtures' = db.fixtures
    /\ career' = db.career
    /\ UNCHANGED <<active_matches, completed_match_results, pending_toss_results>>

\* What play_ball, simulate_over_interactive and
\* simulate_innings_interactive do with the engine they advanced: when
\* the second innings is complete the match is finalised and its engine
\* removed from active_matches.
ServeEngine(fixture_id, engine) ==
    /\ ServeRequest
    /\ UNCHANGED pending_toss_results
    /\ IF engine.current = 2 /\ is_innings_complete(engine.innings2)
       THEN LET db == finalize_match_interactive(SeasonDb, fixture_id)
            IN  /\ fixtures' = db.fixtures
                /\ career' = db.career
                /\ completed_match_results' =
                       (fixture_id :> [engine |-> engine,
                                       winner_id |-> match_winner(engine)])
                           @@ completed_match_results
                /\ active_matches' = [f \in DOMAIN active_matches \ {fixture_id} |->
                                        active_matches[f]]
       ELSE /\ active_matches' = [active_matches EXCEPT ![fixture_id] = engine]
            /\ UNCHANGED <<fixtures, career, completed_match_results>>

\* POST /season/{career_id}/generate-fixtures
GenerateFixtures ==
    /\ ~(~career.auction_completed)
    /\ ~(Len(fixtures) > 0)
    /\ ServeSeason([fixtures |-> generate_league_fixtures,
                    career |-> [career EXCEPT !.status = "in_season",
                                              !.phase = "league_stage"]])

\* The pending toss results left alone.
keep_pending_toss(pending, fixture_id) == pending

\* start_match: del pending_toss_results[fixture_id] if it is there.
clear_pending_toss(pending, fixture_id) ==
    [f \in DOMAIN pending \ {fixture_id} |-> pending[f]]

\* POST /match/{career_id}/match/{fixture_id}/start
StartMatch(fixture_id, batting_first) ==
    LET innings1 == setup_innings(batting_first, None)
    IN  /\ ~(fixture_id \notin DOMAIN fixtures)
        /\ ~(fixtures[fixture_id].status = "completed")
        /\ ServeRequest
        /\ \E b \in select_bowler(innings1) :
              active_matches' =
                  (fixture_id :> [innings1 |-> [innings1 EXCEPT !.current_bowler_id = b],
                                  innings2 |-> None, current |-> 1,
                                  user_team_id |-> UserTeam]) @@ active_matches
        /\ pending_toss_results' = clear_pending_toss(pending_toss_results, fixture_id)
        /\ fixtures' = [fixtures EXCEPT ![fixture_id].status = "in_progress"]
        /\ UNCHANGED <<career, completed_match_results>>

\* POST /match/{career_id}/match/{fixture_id}/ball
PlayBall(fixture_id, outcome) ==
    /\ ~(fixture_id \notin DOMAIN active_matches)
    /\ \E e \in play_ball(active_matches[fixture_id], outcome) :
          ServeEngine(fixture_id, e)

\* POST /match/{career_id}/match/{fixture_id}/simulate-over
SimulateOver(fixture_id) ==
    /\ ~(fixture_id \notin DOMAIN active_matches)
    /\ LET engine == active_matches[fixture_id]
       IN  \E e \in simulate_interactive(engine,
                       simulate_over(current_innings(engine), OverOutcomes)) :
              ServeEngine(fixture_id, e)

\* POST /match/{career_id}/match/{fixture_id}/simulate-innings
SimulateInnings(fixture_id) ==
    /\ ~(fixture_id \notin DOMAIN active_matches)
    /\ LET engine == active_matches[fixture_id]
       IN  /\ OversPerInnings - current_innings(engine).overs <= MaxSimulatedOvers
           /\ \E e \in simulate_interactive(engine,
                          simulate_innings(current_innings(engine), InningsOutcomes)) :
                 ServeEngine(fixture_id, e)

\* POST /match/{career_id}/match/{fixture_id}/select-bowler
SelectBowler(fixture_id, bowler_id) ==
    /\ ~(fixture_id \notin DOMAIN active_matches)
    /\ \E e \in select_bowler_manual(active_matches[fixture_id], bowler_id) :
          ServeEngine(fixture_id, e)

\* get_match_result were it to leave the stored result in place.
get_match_result_kept(fixture_id) ==
    [ok |-> fixture_id \in DOMAIN completed_match_results,
     results |-> completed_match_results]

\* get_match_result: whether the request returns the result, and the
\* completed_match_results it leaves.  engine.innings2 is set exactly
\* when the current innings is the second.
get_match_result(fixture_id) ==
    IF fixture_id \in DOMAIN active_matches
    THEN LET engine == active_matches[fixture_id]
         IN  [ok |-> ~(engine.current = 1 \/ ~is_innings_complete(engine.innings2)),
              results |-> completed_match_results]
    ELSE IF fixture_id \in DOMAIN completed_match_results
    THEN [ok |-> TRUE,
          results |-> [f \in DOMAIN completed_match_results \ {fixture_id} |->
                          completed_match_results[f]]]
    ELSE [ok |-> FALSE, results |-> completed_match_results]

\* GET /match/{career_id}/match/{fixture_id}/result; the log entry tells
\* whether the fixture was Completed when the request was made.
GetMatchResult(fixture_id) ==
    /\ served < MaxMatchRequests
    /\ served' = served + 1
    /\ resultLog' = Append(resultLog,
                           [fixture_id |-> fixture_id,
                            ok |-> get_match_result(fixture_id).ok,
                            completed |-> fixtures[fixture_id].status = "completed"])
    /\ completed_match_results' = get_match_result(fixture_id).results
    /\ UNCHANGED <<fixtures, career, active_matches, pending_toss_results>>
    /\ UNCHANGED outsideMatchVars

\* POST /season/{career_id}/simulate-match/{fixture_id}
SimulateMatch(fixture_id) ==
    /\ ~(fixture_id \notin DOMAIN fixtures)
    /\ ~(fixtures[fixture_id].status # "scheduled")
    /\ ServeSeason(simulate_match(SeasonDb, fixture_id))

\* POST /season/{career_id}/simulate-next-match
SimulateNextMatch ==
    /\ ~(get_next_fixture(SeasonDb) = None)
    /\ ServeSeason(simulate_next_match(SeasonDb))

\* POST /season/{career_id}/simulate-all-league
SimulateAllLeague ==
    /\ Len(fixtures) > 0
    /\ ServeSeason(simulate_all_league_matches(SeasonDb))

(***************************************************************************)
(* Initial states of the season: the auction just completed; the late      *)
(* season, reached by simulate-next-match from the generated fixtures;     *)
(* and the late season with the user's fixture in progress, sixteen overs  *)
(* into its first innings, reached by start and simulate-over.             *)
(***************************************************************************)
RECURSIVE ReplaySeason(_, _)
ReplaySeason(db, k) ==
    LET next == simulate_next_match(db)
    IN  IF k = 0 THEN db
        ELSE IF get_next_fixture(next) = None THEN next
        ELSE ReplaySeason(next, k - 1)

LateSeason ==
    ReplaySeason([fixtures |-> generate_league_fixtures,
                  career |-> [status |-> "in_season", phase |-> "league_stage",
                              auction_completed |-> TRUE]],
                 Len(generate_league_fixtures) - LeagueRemaining)

\* The bowlers of the sixteen overs: four bowlers, four overs each.
LateSchedule == <<8, 9, 8, 9, 8, 9, 8, 9, 10, 11, 10, 11, 10, 11, 10, 11>>

RECURSIVE ReplayOvers(_, _)
ReplayOvers(innings, k) ==
    LET next == CHOOSE i \in simulate_over(innings, OverOutcomes) :
                    /\ i.last_bowler_id = LateSchedule[k]
                    /\ i.overs = innings.overs + 1
                    /\ i.wickets = innings.wickets
                    /\ i.extras = innings.extras
    IN  IF k > Len(LateSchedule) THEN innings
        ELSE IF is_innings_complete(next) THEN next
        ELSE ReplayOvers(next, k + 1)

LateEngine ==
    [innings1 |-> ReplayOvers([setup_innings(UserTeam, None) EXCEPT
                                  !.current_bowler_id = LateSchedule[1]], 1),
     innings2 |-> None, current |-> 1, user_team_id |-> UserTeam]

\* The first innings one legal ball from its end: nineteen overs by the
\* five bowlers in turn (start, simulate-over), then five dot balls (ball).
LastOverSchedule ==
    <<7, 8, 9, 10, 11, 7, 8, 9, 10, 11, 7, 8, 9, 10, 11, 7, 8, 9, 10>>

LastOverBowler == 11

\* F(x), with x evaluated once.
Once(F(_), x) == CHOOSE r \in {F(v) : v \in {x}} : TRUE

\* simulate-over: an over by the bowler, without wicket or extra.
OverBy(innings, bowler_id) ==
    CHOOSE i \in simulate_over(innings, OverOutcomes) :
        /\ i.last_bowler_id = bowler_id
        /\ i.overs = innings.overs + 1
        /\ i.wickets = innings.wickets
        /\ i.extras = innings.extras

RECURSIVE ReplaySchedule(_, _, _)
ReplaySchedule(innings, schedule, k) ==
    IF k > Len(schedule) THEN innings
    ELSE Once(LAMBDA next : IF is_innings_complete(next) THEN next
                            ELSE ReplaySchedule(next, schedule, k + 1),
              Once(LAMBDA v : OverBy(v, schedule[k]), innings))

\* ball: a dot ball by the last over's bowler.
DotBall(engine) ==
    CHOOSE e \in play_ball(engine, BallOutcome(0, FALSE, FALSE, FALSE)) :
        current_innings(e).current_bowler_id = LastOverBowler

RECURSIVE ReplayBalls(_, _)
ReplayBalls(engine, k) ==
    IF k = 0 THEN engine
    ELSE Once(LAMBDA next : IF is_innings_complete(current_innings(next)) THEN next
                            ELSE ReplayBalls(next, k - 1),
              Once(LAMBDA v : DotBall(v), engine))

LastBallEngine ==
    ReplayBalls(
        [innings1 |-> ReplaySchedule([setup_innings(UserTeam, None) EXCEPT
                                         !.current_bowler_id = LastOverSchedule[1]],
                                     LastOverSchedule, 1),
         innings2 |-> None, current |-> 1, user_team_id |-> UserTeam],
        BallsPerOver - 1)

\* The second innings bowled from its start to one over from its end, and
\* the last bowler selected.
ChaseFrom(second) ==
    Once(LAMBDA bowled : CHOOSE e \in select_bowler_manual(bowled, LastOverBowler) : TRUE,
         [second EXCEPT
             !.innings2 = ReplaySchedule([second.innings2 EXCEPT
                                             !.current_bowler_id = LastOverSchedule[1]],
                                         LastOverSchedule, 1)])

\* The second innings with one over left, the scores level at 0 and the
\* user's last bowler selected: the ball that ends the first innings, then
\* nineteen simulate-over requests and a select-bowler request.
ChaseEngine ==
    Once(LAMBDA ended :
             Once(LAMBDA second : ChaseFrom(second),
                  CHOOSE e \in start_second_innings(ended) : TRUE),
         CHOOSE e \in play_ball(LastBallEngine, BallOutcome(0, FALSE, FALSE, FALSE)) : TRUE)

SeasonIs(db, matches) ==
    /\ DbIs(complete_auction(NewCareerDb(<<>>)))
    /\ lastReq = [op |-> "auto_complete", ok |-> TRUE, finalised |-> {}]
    /\ NoCareers
    /\ served = 0
    /\ resultLog = <<>>
    /\ fixtures = db.fixtures
    /\ career = db.career
    /\ active_matches = matches
    /\ completed_match_results = <<>>
    /\ standings = <<>>
    /\ pending_toss_results = <<>>
    /\ playing_xi = <<>>

\* The late season with the user's fixture in progress.
LateMatch == [LateSeason EXCEPT !.fixtures[UserFixture].status = "in_progress"]

InitMatch ==
    /\ NoRequests
    /\ \/ SeasonIs(LateSeason, <<>>)
       \/ SeasonIs(LateMatch, UserFixture :> LateEngine)
       \/ SeasonIs(LateMatch, UserFixture :> LastBallEngine)
       \/ SeasonIs(LateMatch, UserFixture :> ChaseEngine)

NextMatch ==
    \/ \E t \in {UserTeam, Opponent} : StartMatch(UserFixture, t)
    \/ \E o \in PlayOutcomes : PlayBall(UserFixture, o)
    \/ SimulateOver(UserFixture)
    \/ SimulateInnings(UserFixture)
    \/ \E b \in ManualBowlers : SelectBowler(UserFixture, b)
    \/ GetMatchResult(UserFixture)

SpecMatch == InitMatch /\ [][NextMatch]_vars

InitSeason ==
    /\ NoRequests
    /\ \/ SeasonIs([fixtures |-> <<>>,
                    career |-> [status |-> "pre_season", phase |-> "league_stage",
                                auction_completed |-> TRUE]], <<>>)
       \/ SeasonIs(LateSeason, <<>>)
       \/ SeasonIs(LateMatch, UserFixture :> LateEngine)

NextSeason ==
    \/ GenerateFixtures
    \/ \E t \in {UserTeam, Opponent} : StartMatch(UserFixture, t)
    \/ \E o \in PlayOutcomes : PlayBall(UserFixture, o)
    \/ SimulateInnings(UserFixture)
    \/ \E n \in DOMAIN fixtures : SimulateMatch(n)
    \/ SimulateNextMatch
    \/ SimulateAllLeague

SpecSeason == InitSeason /\ [][NextSeason]_vars

Innings == {active_matches[f].innings1 : f \in DOMAIN active_matches}
              \cup {active_matches[f].innings2 :
                       f \in {g \in DOMAIN active_matches : active_matches[g].current = 2}}

\* C3: in every over of every innings at most 3 wickets fall, whatever mix
\* of play_ball and simulate_over delivers the balls of the over.
C3_AtMostThreeWicketsPerOver ==
    \A i \in Innings : \A k \in DOMAIN i.fall_of_wickets :
        i.fall_of_wickets[k] <= MaxWicketsPerOver

RECURSIVE SumOver(_, _)
SumOver(f, S) ==
    IF S = {} THEN 0
    ELSE LET x == CHOOSE y \in S : TRUE IN f[x] + SumOver(f, S \ {x})

\* C5: at every point of every innings total_runs equals the runs credited
\* to the batters plus the extras.
C5_TotalIsBatterRunsPlusExtras ==
    \A i \in Innings :
        i.total_runs = SumOver(i.batter_innings, DOMAIN i.batter_innings) + i.extras

\* C6: the season is in the playoffs, with Qualifier 1 and Eliminator
\* created, only when every league fixture is completed.
C6_PlayoffsOnlyAfterLeagueCompleted ==
    (career.phase = "playoffs"
        \/ \E n \in DOMAIN fixtures : fixtures[n].fixture_type \in {"qualifier_1", "eliminator"})
    => \A n \in DOMAIN fixtures :
          fixtures[n].fixture_type = "league" => fixtures[n].status = "completed"

\* C7: in every innings no bowler bowls more than 4 completed overs, the
\* XI satisfying the playing-XI validation.
C7_NoBowlerOverFourOvers ==
    validate(PlayingXI) =>
        \A i \in Innings : \A b \in DOMAIN i.bowler_spells :
            i.bowler_spells[b] <= MaxOversPerBowler

(***************************************************************************)
(* Concurrent match requests.  The match endpoints are plain def           *)
(* functions, run in the server's thread pool; active_matches is a module  *)
(* dictionary and the engine in it one object, which every request on the  *)
(* fixture mutates in place, and the code takes no lock.  A request looks  *)
(* the engine up and reads its current innings between database calls,     *)
(* then updates the engine in memory, then, when the second innings is     *)
(* complete, finalises the match with further database calls.  After       *)
(* del active_matches[fixture_id] the object lives on in                   *)
(* completed_match_results.                                                *)
(***************************************************************************)
MatchOps == {"ball", "simulate_over", "simulate_innings", "select_bowler"}

EngineObject(fixture_id) ==
    IF fixture_id \in DOMAIN active_matches THEN active_matches[fixture_id]
    ELSE completed_match_results[fixture_id].engine

outsideMatchConcVars ==
    <<players, auction, entries, teamStates, bids, lastReq, careersVars, resultLog,
      standings, pending_toss_results, playing_xi>>

\* The lookup in active_matches and engine.current_innings.
EnterMatchRequest(r, op) ==
    /\ reqs[r].pc \in {"idle", "done"}
    /\ reqs[r].served < MaxRequests
    /\ served < MaxMatchRequests
    /\ served' = served + 1
    /\ reqs' = [reqs EXCEPT ![r] =
                  IF UserFixture \notin DOMAIN active_matches
                  THEN [IdleReq EXCEPT !.pc = "done", !.op = op,
                                       !.served = reqs[r].served + 1]
                  ELSE [IdleReq EXCEPT !.pc = "entered", !.op = op,
                                       !.served = reqs[r].served + 1,
                                       !.snap = [innings |-> active_matches[UserFixture].current]]]
    /\ UNCHANGED <<fixtures, career, active_matches, completed_match_results>>
    /\ UNCHANGED outsideMatchConcVars

\* The endpoint's work on the engine, on the innings the request read.
ApplyMatchRequest(r) ==
    LET engine == [EngineObject(UserFixture) EXCEPT !.current = reqs[r].snap.innings]
        innings == current_innings(engine)
        results ==
            CASE reqs[r].op = "ball" ->
                    UNION {play_ball(engine, o) : o \in PlayOutcomes}
              [] reqs[r].op = "simulate_over" ->
                    simulate_interactive(engine, simulate_over(innings, OverOutcomes))
              [] reqs[r].op = "simulate_innings" ->
                    IF OversPerInnings - innings.overs <= MaxSimulatedOvers
                    THEN simulate_interactive(engine,
                                              simulate_innings(innings, InningsOutcomes))
                    ELSE {}
              [] reqs[r].op = "select_bowler" ->
                    UNION {select_bowler_manual(engine, b) : b \in ManualBowlers}
    IN  /\ reqs[r].pc = "entered"
        /\ IF results = {}
           THEN /\ reqs' = [reqs EXCEPT ![r].pc = "done", ![r].ok = FALSE]
                /\ UNCHANGED <<active_matches, completed_match_results>>
           ELSE \E e \in results :
                   /\ IF UserFixture \in DOMAIN active_matches
                      THEN /\ active_matches' = [active_matches EXCEPT ![UserFixture] = e]
                           /\ UNCHANGED completed_match_results
                      ELSE /\ completed_match_results' =
                                 [completed_match_results EXCEPT ![UserFixture].engine = e]
                           /\ UNCHANGED active_matches
                   /\ reqs' = [reqs EXCEPT
                                 ![r].ok = TRUE,
                                 ![r].pc = IF /\ reqs[r].op # "select_bowler"
                                              /\ e.current = 2
                                              /\ is_innings_complete(e.innings2)
                                           THEN "finalizing" ELSE "done"]
        /\ UNCHANGED <<fixtures, career, served>>
        /\ UNCHANGED outsideMatchConcVars

\* _finalize_match_interactive, _store_completed_match and
\* del active_matches[fixture_id], which raises KeyError when the entry
\* is gone.
FinalizeMatchRequest(r) ==
    LET db == finalize_match_interactive(SeasonDb, UserFixture)
        engine == EngineObject(UserFixture)
    IN  /\ reqs[r].pc = "finalizing"
        /\ fixtures' = db.fixtures
        /\ career' = db.career
        /\ completed_match_results' =
               (UserFixture :> [engine |-> engine, winner_id |-> match_winner(engine)])
                   @@ completed_match_results
        /\ active_matches' = [f \in DOMAIN active_matches \ {UserFixture} |->
                                active_matches[f]]
        /\ reqs' = [reqs EXCEPT ![r].pc = "done",
                                ![r].ok = (UserFixture \in DOMAIN active_matches)]
        /\ UNCHANGED served
        /\ UNCHANGED outsideMatchConcVars

InitMatchConc ==
    /\ NoRequests
    /\ SeasonIs(LateMatch, UserFixture :> LateEngine)

NextMatchConc ==
    \/ \E r \in Threads, op \in MatchOps : EnterMatchRequest(r, op)
    \/ \E r \in Threads : ApplyMatchRequest(r)
    \/ \E r \in Threads : FinalizeMatchRequest(r)

SpecMatchConc == InitMatchConc /\ [][NextMatchConc]_vars

\* C4: two requests for the same fixture never execute concurrently on the
\* cached engine: while one request is between its lookup of the engine
\* and the last of its effects, no other request has looked the engine up.
C4_MatchRequestsExclusive ==
    \A r1, r2 \in Threads :
        (r1 # r2 /\ reqs[r1].pc \in {"entered", "finalizing"})
            => reqs[r2].pc \notin {"entered", "finalizing"}

(***************************************************************************)
(* Further properties of the auction.                                      *)
(***************************************************************************)
\* What the teams have spent, and the prices of the entries that are Sold.
BudgetSpent ==
    SumOver([t \in DOMAIN teamStates |-> TeamBudget - teamStates[t].remaining_budget],
            DOMAIN teamStates)

SoldPrices ==
    SumOver([o \in DOMAIN entries |->
                IF entries[o].status = "sold" THEN entries[o].sold_price ELSE 0],
            DOMAIN entries)

(***************************************************************************)
(* AuctionEngine.place_bid called directly, as the engine's callers and    *)
(* its tests call it.  The auction is in bidding on the first player of    *)
(* LivePool; each team's remaining budget and squad size are drawn from    *)
(* the values below, which stand for what the team bought before.          *)
(***************************************************************************)
BidBudgets == {0, 3000000, 23000000, 43000000}

BidSquads == {MinSquadSize - 3, MinSquadSize - 2, MinSquadSize - 1, MinSquadSize}

BidAmounts == {1000000, 1500000, 2500000, 3000000, 23000000, 24000000}

BidDb(budget, squad) ==
    [BiddingDb EXCEPT
        !.teamStates = [t \in DOMAIN BiddingDb.teamStates |->
                           [BiddingDb.teamStates[t] EXCEPT
                               !.remaining_budget = budget[t],
                               !.total_players = squad[t]]]]

InitBid ==
    /\ \E budget \in [Teams -> BidBudgets], squad \in [Teams -> BidSquads] :
          DbIs(BidDb(budget, squad))
    /\ career = [status |-> "auction", phase |-> "auction",
                 auction_completed |-> FALSE]
    /\ lastReq = [op |-> "next_player", ok |-> TRUE, finalised |-> {}]
    /\ NoRequests
    /\ OutsideAuctionIdle

\* engine.place_bid(team_id, player_id, amount)
EnginePlaceBid(team_id, amount) ==
    /\ auction.current_player_id # None
    /\ Commit(place_bid(Cur, team_id, auction.current_player_id, amount))
    /\ lastReq' = [op |-> "place_bid", ok |-> place_bid_ok(Cur, team_id, amount),
                   finalised |-> {}, team_id |-> team_id, amount |-> amount]
    /\ UNCHANGED career
    /\ UNCHANGED notAuctionVars

\* engine.quick_pass_player(player_entry, exclude_team_id=exclude_team_id)
EngineQuickPass(exclude_team_id) ==
    /\ auction.current_player_id # None
    /\ \E db \in quick_pass_player(Cur, EntryOf(Cur, auction.current_player_id),
                                   exclude_team_id) :
          /\ Commit(db)
          /\ lastReq' = [op |-> "quick_pass_player", ok |-> TRUE,
                         finalised |-> Finalised(Cur, db),
                         team_id |-> exclude_team_id, amount |-> Len(bids)]
    /\ UNCHANGED career
    /\ UNCHANGED notAuctionVars

MaxRoundsAutoBid == 200

\* One iteration of run_auto_bid_competition's loop on a configuration
\* [db, rounds, passes, status]; status is "" while the loop runs.  An AI
\* team's probability max(0.2, 1 - 0.7 * ratio) is below 1: it may always
\* stay out, while the user bids whenever the conditions allow it.
AutoBidStep(x, o, user_team_id, user_max_bid, vals) ==
    LET db == x.db
        pid == db.entries[o].player_id
        next_bid == get_next_bid_amount(db.auction.current_bid)
        user_is_highest == db.auction.current_bidder_team_id = user_team_id
        user_state == db.teamStates[user_team_id]
        user_bids == /\ ~user_is_highest
                     /\ next_bid <= user_max_bid
                     /\ next_bid <= max_bid_possible(user_state)
                     /\ user_state.total_players < MaxSquadSize
                     /\ (~db.players[pid].is_overseas
                            \/ user_state.overseas_players < MaxOverseas)
        ai == {t \in DOMAIN vals :
                  /\ t # db.auction.current_bidder_team_id
                  /\ CanAfford(db, pid, t, next_bid)
                  /\ next_bid <= vals[t]}
        pass == [x EXCEPT !.rounds = @ - 1, !.passes = @ + 1]
        bid(t) == IF place_bid_ok(db, t, next_bid)
                  THEN [x EXCEPT !.db = place_bid(db, t, pid, next_bid),
                                 !.rounds = @ - 1, !.passes = 0]
                  ELSE pass
    IN  IF ~user_is_highest /\ next_bid > user_max_bid
        THEN {[x EXCEPT !.status = "cap_exceeded"]}
        ELSE IF ~user_is_highest /\ next_bid > max_bid_possible(user_state)
        THEN {[x EXCEPT !.status = "budget_limit"]}
        ELSE {bid(t) : t \in ai \cup (IF user_bids THEN {user_team_id} ELSE {})}
                \cup (IF user_bids THEN {} ELSE {pass})

\* The AutoBidResult of a configuration that finalizes the player whatever
\* made the loop stop.
auto_bid_result_finalized(x, o, user_team_id) ==
    [db |-> finalize_player(x.db, o),
     status |-> IF x.status # "" THEN x.status
                ELSE IF x.db.auction.current_bidder_team_id = user_team_id
                     THEN "won" ELSE "lost"]

\* The AutoBidResult of a configuration at which the loop stops: an early
\* return keeps the database, the end of the loop finalizes the player.
auto_bid_result(x, o, user_team_id) ==
    IF x.status # "" THEN [db |-> x.db, status |-> x.status]
    ELSE [db |-> finalize_player(x.db, o),
          status |-> IF x.db.auction.current_bidder_team_id = user_team_id
                     THEN "won" ELSE "lost"]

RECURSIVE AutoBidLoop(_, _, _, _, _, _)
AutoBidLoop(frontier, done, o, user_team_id, user_max_bid, vals) ==
    IF frontier = {} THEN done
    ELSE LET exits == {x \in frontier : LoopDone(x) \/ x.status # ""}
         IN  AutoBidLoop(
                UNION {AutoBidStep(x, o, user_team_id, user_max_bid, vals)
                       : x \in frontier \ exits},
                done \cup {auto_bid_result(x, o, user_team_id) : x \in exits},
                o, user_team_id, user_max_bid, vals)

\* AuctionEngine.run_auto_bid_competition(player_entry, user_team_id,
\* user_max_bid): the results [db, status] the call can return.
run_auto_bid_competition(db, o, user_team_id, user_max_bid) ==
    LET pid == db.entries[o].player_id
        bidders == {t \in Teams : t # user_team_id}
    IN  UNION {AutoBidLoop(
                  {[db |-> db, rounds |-> MaxRoundsAutoBid, passes |-> 0,
                    status |-> ""]}, {}, o, user_team_id, user_max_bid,
                  [t \in bidders |-> calculate_player_value(db, pid, t, va[t])])
               : va \in [bidders -> Variances]}

AutoBidCaps == {2000000, 3000000, 6000000}

\* engine.run_auto_bid_competition(player_entry, user_team_id, user_max_bid)
EngineAutoBid(user_max_bid) ==
    /\ auction.current_player_id # None
    /\ \E r \in run_auto_bid_competition(
                    Cur, EntryOf(Cur, auction.current_player_id), UserTeam,
                    user_max_bid) :
          /\ Commit(r.db)
          /\ lastReq' = [op |-> "run_auto_bid_competition", ok |-> TRUE,
                         finalised |-> Finalised(Cur, r.db),
                         team_id |-> UserTeam, amount |-> user_max_bid,
                         status |-> r.status,
                         entry |-> EntryOf(Cur, auction.current_player_id)]
    /\ UNCHANGED career
    /\ UNCHANGED notAuctionVars

NextBid ==
    \/ \E team_id \in Teams, amount \in BidAmounts : EnginePlaceBid(team_id, amount)
    \/ \E exclude_team_id \in Teams : EngineQuickPass(exclude_team_id)
    \/ \E user_max_bid \in AutoBidCaps : EngineAutoBid(user_max_bid)

SpecBid == InitBid /\ [][NextBid]_vars

\* The ceiling of a team's bids with a reserve of r for each slot that is
\* still to fill after the current player.
BidCeiling(st, r) ==
    Max(0, st.remaining_budget - (Max(0, MinSquadSize - st.total_players) - 1) * r)

\* The last call of place_bid was made by a team with 3 000 000 left and
\* two players short of the minimum squad, at the base price of 2 000 000.
ExampleBid(amount) ==
    /\ lastReq.op = "place_bid"
    /\ lastReq.amount = amount
    /\ teamStates[lastReq.team_id].remaining_budget = 3000000
    /\ min_players_needed(teamStates[lastReq.team_id]) = 2
    /\ players[auction.current_player_id].base_price = 2000000

\* C14 as stated: max_bid_possible equals max(0, remaining_budget -
\* (min_players_needed - 1) * 2 000 000); in the example a bid of 1 500 000
\* is rejected and a bid of 1 000 000 is accepted.
C14_ReserveTwoMillion ==
    /\ \A t \in DOMAIN teamStates :
          max_bid_possible(teamStates[t]) = BidCeiling(teamStates[t], 2000000)
    /\ ExampleBid(1500000) => ~lastReq.ok
    /\ ExampleBid(1000000) => lastReq.ok

\* C14: place_bid accepts a bid only up to max(0, remaining_budget -
\* (min_players_needed - 1) * 20 000 000), and rejects a bid only when it
\* is above that ceiling or not above the current bid; in the example both
\* the bid of 1 500 000 and the bid of 1 000 000 are rejected.
C14_ReserveTwentyMillion ==
    /\ lastReq.op = "place_bid" =>
          LET ceiling == BidCeiling(teamStates[lastReq.team_id], ReservePerSlot)
          IN  IF lastReq.ok
              THEN /\ lastReq.amount <= ceiling
                   /\ auction.current_bid = lastReq.amount
                   /\ auction.current_bidder_team_id = lastReq.team_id
              ELSE \/ lastReq.amount > ceiling
                   \/ lastReq.amount <= auction.current_bid
    /\ ExampleBid(1500000) => ~lastReq.ok
    /\ ExampleBid(1000000) => ~lastReq.ok

C14_ExampleBidRejected == ExampleBid(1000000) /\ ~lastReq.ok

\* C21: when run_auto_bid_competition returns cap_exceeded or budget_limit
\* the entry is still in bidding and still the auction's current player and
\* no team's budget or counters have changed; when it returns won or lost
\* the entry has been finalised as sold or unsold.
C21_AutoBidFinalisesOnlyAtLoopEnd ==
    [][lastReq'.op = "run_auto_bid_competition" =>
          IF lastReq'.status \in {"cap_exceeded", "budget_limit"}
          THEN /\ entries'[lastReq'.entry].status = "in_bidding"
               /\ auction'.current_player_id = entries'[lastReq'.entry].player_id
               /\ teamStates' = teamStates
          ELSE /\ lastReq'.status \in {"won", "lost"}
               /\ entries'[lastReq'.entry].status \in {"sold", "unsold"}]_vars

\* An auto-bid returned cap_exceeded after bids of its own were placed.
C21_CapExceededAfterBids ==
    /\ lastReq.op = "run_auto_bid_competition"
    /\ lastReq.status = "cap_exceeded"
    /\ auction.current_bidder_team_id # None
    /\ auction.current_bidder_team_id # UserTeam
    /\ \E i \in DOMAIN bids : bids[i].team_id = UserTeam

\* C29: a place_bid call with an amount above the team's max_bid_possible,
\* or not above the current bid, returns false and leaves the auction
\* state unchanged: no bid record is added, and the current bid, the
\* current bidder and every team's budget and counters keep their values.
C29_RejectedBidChangesNothing ==
    [][(/\ lastReq'.op = "place_bid"
        /\ \/ lastReq'.amount > max_bid_possible(teamStates[lastReq'.team_id])
           \/ lastReq'.amount <= auction.current_bid)
       => /\ ~lastReq'.ok
          /\ bids' = bids
          /\ auction' = auction
          /\ teamStates' = teamStates
          /\ entries' = entries
          /\ players' = players]_vars

\* A bid refused for not being above the bid another team holds.
C29_BidNotAboveCurrentRefused ==
    /\ lastReq.op = "place_bid"
    /\ ~lastReq.ok
    /\ lastReq.amount <= auction.current_bid
    /\ lastReq.amount <= max_bid_possible(teamStates[lastReq.team_id])
    /\ auction.current_bidder_team_id \notin {None, lastReq.team_id}

\* C15: for every call run_competitive_ai_bidding(entry, exclude_team_id=T)
\* no bid is placed for T during the call, and when the entry is finalised
\* after the call the player is not sold to T.  (lastReq.amount holds the
\* number of bids placed before the call.)
C15_ExcludedTeamNeverWins ==
    lastReq.op = "quick_pass_player" =>
       /\ \A i \in DOMAIN bids :
             i > lastReq.amount => bids[i].team_id # lastReq.team_id
       /\ \A o \in lastReq.finalised :
             entries[o].status = "sold" => entries[o].sold_to_team_id # lastReq.team_id

\* C16: a quick-pass request completes the bidding on the current player
\* among the other teams only: none of the bids placed during the request
\* is a bid of the user's team.
C16_QuickPassPlacesNoUserBid ==
    [][lastReq'.op = "quick_pass" =>
          \A i \in DOMAIN bids' : i > Len(bids) => bids'[i].team_id # UserTeam]_vars

\* C11: at every point of every auction the sum over teams of (initial
\* budget - remaining budget) equals the sum of sold_price over the Sold
\* entries.
C11_SpentEqualsSoldPrices == BudgetSpent = SoldPrices

(***************************************************************************)
(* The auction with squads near their limits.  The auction is in progress  *)
(* on LivePool, whose second player is an overseas player; each team's     *)
(* squad size and overseas count are drawn from the two values at the      *)
(* limit, which stand for what the team bought before.                     *)
(***************************************************************************)
CapSquads == {MaxSquadSize - 1, MaxSquadSize}

CapOverseas == {MaxOverseas - 1, MaxOverseas}

CapBudget == 100 * 1000000

CapsDb(squad, overseas) ==
    LET db == initialize_auction(NewCareerDb(LivePool), DOMAIN LivePool)
    IN  [db EXCEPT
            !.teamStates = [t \in DOMAIN db.teamStates |->
                               [db.teamStates[t] EXCEPT
                                   !.remaining_budget = CapBudget,
                                   !.total_players = squad[t],
                                   !.overseas_players = overseas[t]]]]

InitCaps ==
    /\ \E squad \in [Teams -> CapSquads], overseas \in [Teams -> CapOverseas] :
          DbIs(CapsDb(squad, overseas))
    /\ career = [status |-> "auction", phase |-> "auction",
                 auction_completed |-> FALSE]
    /\ lastReq = [op |-> "start", ok |-> TRUE, finalised |-> {}]
    /\ NoRequests
    /\ OutsideAuctionIdle

\* The loop of auto_complete_auction over the players still available.
RECURSIVE AutoCompleteRest(_)
AutoCompleteRest(dbs) ==
    LET open == {d \in dbs : ~is_auction_complete(d) /\ get_next_player(d) # None}
        one(d) == {finalize_player(s, get_next_player(d)) :
                      s \in simulate_full_bidding(
                               start_bidding(d, get_next_player(d)))}
    IN  IF open = {} THEN dbs
        ELSE AutoCompleteRest((dbs \ open) \cup UNION {one(d) : d \in open})

\* POST /{career_id}/auto-complete
auto_complete_auction(db) ==
    LET o == EntryOf(db, db.auction.current_player_id)
        first == IF /\ db.auction.current_player_id # None
                    /\ o # None
                    /\ db.entries[o].status = "in_bidding"
                 THEN {finalize_player(d, o) : d \in simulate_full_bidding(db)}
                 ELSE {db}
    IN  {complete_auction(d) : d \in AutoCompleteRest(first)}

AutoCompleteAuction ==
    /\ auction.status = "in_progress"
    /\ \E db \in auto_complete_auction(Cur) : Served("auto_complete", db)
    /\ AuctionFinished

NextCaps ==
    \/ NextPlayer
    \/ PlaceUserBid
    \/ PassBidding
    \/ SimulateBiddingRound
    \/ FinalizeCurrentPlayer
    \/ \E category \in ValidCategories : SkipCategory(category)
    \/ QuickPass
    \/ AutoCompleteAuction
    \/ \E user_max_bid \in AutoBidCaps : EngineAutoBid(user_max_bid)

SpecCaps == InitCaps /\ [][NextCaps]_vars

\* C22: after any sequence of auction operations every team has at most 25
\* players, of whom at most 8 are overseas players.
C22_SquadWithinLimits ==
    \A t \in DOMAIN teamStates :
        /\ teamStates[t].total_players <= MaxSquadSize
        /\ teamStates[t].overseas_players <= MaxOverseas

\* The overseas player was sold to a team that then holds 25 players, 8 of
\* them overseas players.
C22_LastSlotFilled ==
    \E o \in DOMAIN entries :
        /\ entries[o].status = "sold"
        /\ players[entries[o].player_id].is_overseas
        /\ teamStates[entries[o].sold_to_team_id].total_players = MaxSquadSize
        /\ teamStates[entries[o].sold_to_team_id].overseas_players = MaxOverseas

(***************************************************************************)
(* Further properties of the interactive match.                            *)
(***************************************************************************)
\* C12: immediately after the delivery that completes the first innings,
\* whichever request delivered it, the current innings is the second
\* innings, with target = first-innings total + 1 and a first bowler.
C12_SecondInningsFollowsFirst ==
    \A f \in DOMAIN active_matches :
        LET e == active_matches[f]
        IN  is_innings_complete(e.innings1) =>
               /\ e.current = 2
               /\ e.innings2.target = e.innings1.total_runs + 1
               /\ (e.innings2.overs = 0 /\ e.innings2.balls = 0
                      => e.innings2.current_bowler_id # None)

\* Every innings played or in play: of the engines in active_matches and of
\* those kept in completed_match_results.
InningsPlayed ==
    Innings
        \cup {completed_match_results[f].engine.innings1 :
                 f \in DOMAIN completed_match_results}
        \cup {completed_match_results[f].engine.innings2 :
                 f \in DOMAIN completed_match_results}

\* C36: a start_match request on a fixture that has a live session in
\* active_matches leaves that session as it was: the same innings with the
\* same runs, wickets, overs and balls.
C36_StartKeepsLiveSession ==
    [][(/\ UserFixture \in DOMAIN active_matches
        /\ \E t \in {UserTeam, Opponent} : StartMatch(UserFixture, t))
       => /\ UserFixture \in DOMAIN active_matches'
          /\ active_matches'[UserFixture].current = active_matches[UserFixture].current
          /\ \A f \in {"total_runs", "wickets", "overs", "balls"} :
                /\ active_matches'[UserFixture].innings1[f]
                      = active_matches[UserFixture].innings1[f]
                /\ active_matches[UserFixture].current = 2 =>
                      active_matches'[UserFixture].innings2[f]
                         = active_matches[UserFixture].innings2[f]]_vars

\* C23: in every innings no over is bowled by the bowler of the over before,
\* under automatic selection and under select_bowler (the XI has five
\* bowlers and all-rounders).
C23_NoConsecutiveOvers ==
    \A i \in InningsPlayed : ~i.repeated_bowler

\* An over bowled by player 1, whom only select_bowler can put on, after at
\* least one other over of the innings.
C23_ManualBowlerCompletedOver ==
    \E i \in InningsPlayed : i.last_bowler_id = 1 /\ i.overs >= 2

\* C24: at every point of every innings overs * 6 + balls is the number of
\* deliveries bowled so far that were neither wides nor no-balls, and balls
\* is between 0 and 5 after each request.
C24_OversAndBallsCountLegalDeliveries ==
    \A i \in InningsPlayed :
        /\ i.overs * 6 + i.balls = i.legal_deliveries
        /\ i.balls \in 0..5

\* An innings in the middle of an over, with a wide or a no-ball bowled and
\* at least one over completed.
C24_MidOverAfterExtras ==
    \E i \in InningsPlayed : i.extras > 0 /\ i.balls > 0 /\ i.overs >= 1

(***************************************************************************)
(* The interactive requests made for a fixture the user's team does not    *)
(* play in: start_match does not look at the fixture's teams, and sets     *)
(* engine.user_team_id to the career's team all the same.                  *)
(***************************************************************************)
NeutralTeams ==
    {generate_league_fixtures[NeutralFixture].team1_id,
     generate_league_fixtures[NeutralFixture].team2_id}

\* The engine of LateEngine's history, played in the neutral fixture.
NeutralEngine ==
    [LateEngine EXCEPT
        !.innings1.batting_team_id = generate_league_fixtures[NeutralFixture].team1_id]

InitNeutralMatch ==
    /\ NoRequests
    /\ \/ SeasonIs(LateSeason, <<>>)
       \/ SeasonIs([LateSeason EXCEPT !.fixtures[NeutralFixture].status = "in_progress"],
                   NeutralFixture :> NeutralEngine)

NextNeutralMatch ==
    \/ \E t \in NeutralTeams : StartMatch(NeutralFixture, t)
    \/ \E o \in PlayOutcomes : PlayBall(NeutralFixture, o)
    \/ SimulateOver(NeutralFixture)
    \/ SimulateInnings(NeutralFixture)
    \/ \E b \in ManualBowlers : SelectBowler(NeutralFixture, b)
    \/ GetMatchResult(NeutralFixture)

SpecNeutralMatch == InitNeutralMatch /\ [][NextNeutralMatch]_vars

\* C17: at the start of an over with no current bowler, play_ball fails,
\* changing nothing, if and only if the fielding team is the user's team;
\* when another team is fielding, in whatever fixture, a bowler is selected
\* and the ball is bowled.
C17_BowlerErrorIffUserFields ==
    \A f \in DOMAIN active_matches :
        LET engine == active_matches[f]
            innings == current_innings(engine)
        IN  (/\ ~is_innings_complete(innings)
             /\ innings.balls = 0
             /\ innings.current_bowler_id = None)
            => \A o \in PlayOutcomes :
                  play_ball(engine, o) = {}
                      <=> other_team(innings.batting_team_id) = engine.user_team_id

(***************************************************************************)
(* Further properties of the season.                                       *)
(***************************************************************************)
LeagueFixtures == {n \in DOMAIN fixtures : fixtures[n].fixture_type = "league"}

\* C18: whenever the season's phase is LeagueStage the season has exactly
\* 56 league fixtures, one for each ordered pair of distinct teams, and
\* each of the 8 teams appears in exactly 14 of them.
C18_LeagueStageHasAllFixtures ==
    career.phase = "league_stage" =>
       /\ Cardinality(LeagueFixtures) = LeagueTeams * (LeagueTeams - 1)
       /\ \A a, b \in 1..LeagueTeams :
             a # b => Cardinality({n \in LeagueFixtures :
                                     /\ fixtures[n].team1_id = a
                                     /\ fixtures[n].team2_id = b}) = 1
       /\ \A t \in 1..LeagueTeams :
             Cardinality({n \in LeagueFixtures :
                            t \in {fixtures[n].team1_id, fixtures[n].team2_id}})
                = 2 * (LeagueTeams - 1)

(***************************************************************************)
(* The playoffs.  A fixture row carries its teams, its winner (None until  *)
(* it is played, and None for a tie) and the team whose home ground is     *)
(* the venue (None for the neutral venue of the final); the season's       *)
(* champion and runner-up are kept with its phase.  A match is completed   *)
(* offline (simulate-match, simulate-next-match) or by the request that    *)
(* bowls the last ball of its interactive match, of which only the winner  *)
(* that _finalize_match_interactive determines is kept here.               *)
(***************************************************************************)
\* Requests served in one exploration of the playoffs.
MaxPlayoffRequests == 7

\* The first four of the standings the explorations start from.
PlayoffOrders == {<<1, 2, 3, 4>>, <<3, 1, 4, 2>>, <<5, 6, 7, 8>>}

NewFixture(fixture_type, team1_id, team2_id, venue) ==
    [fixture_type |-> fixture_type, status |-> "scheduled", team1_id |-> team1_id,
     team2_id |-> team2_id, winner_id |-> None, venue |-> venue]

\* The season when generate_playoffs has run on the standings top4.
PlayoffsDb(top4) ==
    [fixtures |-> [n \in DOMAIN generate_league_fixtures |->
                      [generate_league_fixtures[n] EXCEPT !.status = "completed"]]
                  \o << NewFixture("qualifier_1", top4[1], top4[2], top4[1])
                            @@ [match_number |-> Len(generate_league_fixtures) + 1],
                        NewFixture("eliminator", top4[3], top4[4], top4[3])
                            @@ [match_number |-> Len(generate_league_fixtures) + 2] >>,
     career |-> [status |-> "playoffs", phase |-> "playoffs",
                 auction_completed |-> TRUE, champion_team_id |-> None,
                 runner_up_team_id |-> None]]

\* filter_by(fixture_type=...).first(): the fixture's number, or None.
FixtureOfType(db, fixture_type) ==
    LET ns == {n \in DOMAIN db.fixtures : db.fixtures[n].fixture_type = fixture_type}
    IN  IF ns = {} THEN None ELSE CHOOSE n \in ns : \A m \in ns : n <= m

IsCompleted(db, n) == n # None /\ db.fixtures[n].status = "completed"

\* team2_id if winner_id == team1_id else team1_id
not_winner(fixture) ==
    IF fixture.winner_id = fixture.team1_id THEN fixture.team2_id ELSE fixture.team1_id

generate_qualifier2(db, q1_loser, eliminator_winner) ==
    [db EXCEPT !.fixtures =
        Append(@, NewFixture("qualifier_2", q1_loser, eliminator_winner, q1_loser)
                      @@ [match_number |-> last_match_number(db.fixtures) + 1])]

generate_final(db, q1_winner, q2_winner) ==
    [db EXCEPT !.fixtures =
        Append(@, NewFixture("final", q1_winner, q2_winner, None)
                      @@ [match_number |-> last_match_number(db.fixtures) + 1])]

\* complete_season, then career.status = POST_SEASON; the empty set when
\* the champion is None and champion.id raises.
complete_season(db, champion, runner_up) ==
    IF champion = None THEN {}
    ELSE {[db EXCEPT !.career.phase = "completed",
                     !.career.champion_team_id = champion,
                     !.career.runner_up_team_id = runner_up,
                     !.career.status = "post_season"]}

\* The three steps of the playoffs that generate-next and
\* _finalize_match_interactive both take: which of them is due.
need_q2(db) ==
    /\ IsCompleted(db, FixtureOfType(db, "qualifier_1"))
    /\ IsCompleted(db, FixtureOfType(db, "eliminator"))
    /\ FixtureOfType(db, "qualifier_2") = None

need_final(db) ==
    /\ IsCompleted(db, FixtureOfType(db, "qualifier_1"))
    /\ IsCompleted(db, FixtureOfType(db, "qualifier_2"))
    /\ FixtureOfType(db, "final") = None

q2_from(db) ==
    generate_qualifier2(db, not_winner(db.fixtures[FixtureOfType(db, "qualifier_1")]),
                        db.fixtures[FixtureOfType(db, "eliminator")].winner_id)

final_from(db) ==
    generate_final(db, db.fixtures[FixtureOfType(db, "qualifier_1")].winner_id,
                   db.fixtures[FixtureOfType(db, "qualifier_2")].winner_id)

season_from(db) ==
    LET final == db.fixtures[FixtureOfType(db, "final")]
    IN  complete_season(db, final.winner_id, not_winner(final))

\* POST /season/{career_id}/playoffs/generate-next after its phase check:
\* three ifs in turn, each returning when it acted.
generate_next_playoff_fixture(db) ==
    IF need_q2(db) /\ db.fixtures[FixtureOfType(db, "eliminator")].winner_id # None
    THEN {q2_from(db)}
    ELSE IF /\ need_final(db)
            /\ db.fixtures[FixtureOfType(db, "qualifier_1")].winner_id # None
            /\ db.fixtures[FixtureOfType(db, "qualifier_2")].winner_id # None
    THEN {final_from(db)}
    ELSE IF IsCompleted(db, FixtureOfType(db, "final")) THEN season_from(db)
    ELSE {db}

\* _finalize_match_interactive for a playoff fixture: the fixture is
\* completed, then one if/elif chain over the same three steps.
finalize_playoff_interactive(db, fixture_id, winner_id) ==
    LET done == [db EXCEPT !.fixtures[fixture_id].status = "completed",
                           !.fixtures[fixture_id].winner_id = winner_id]
    IN  IF need_q2(done)
        THEN IF done.fixtures[FixtureOfType(done, "eliminator")].winner_id # None
             THEN {q2_from(done)} ELSE {done}
        ELSE IF need_final(done)
        THEN IF /\ done.fixtures[FixtureOfType(done, "qualifier_1")].winner_id # None
                /\ done.fixtures[FixtureOfType(done, "qualifier_2")].winner_id # None
             THEN {final_from(done)} ELSE {done}
        ELSE IF IsCompleted(done, FixtureOfType(done, "final")) THEN season_from(done)
        ELSE {done}

\* SeasonEngine.simulate_match with the winner it determined.
simulate_match_won(db, fixture_id, winner_id) ==
    [db EXCEPT !.fixtures[fixture_id].status = "completed",
               !.fixtures[fixture_id].winner_id = winner_id]

\* The results a match can have: either team wins, or the scores are level.
Winners(fixture) == {fixture.team1_id, fixture.team2_id, None}

ServePlayoffs(db) ==
    /\ served < MaxPlayoffRequests
    /\ served' = served + 1
    /\ fixtures' = db.fixtures
    /\ career' = db.career
    /\ UNCHANGED <<active_matches, completed_match_results, resultLog,
                   pending_toss_results>>
    /\ UNCHANGED outsideMatchVars

\* POST /season/{career_id}/simulate-match/{fixture_id}
SimulatePlayoffMatch(fixture_id, winner_id) ==
    /\ ~(fixtures[fixture_id].status # "scheduled")
    /\ ServePlayoffs(simulate_match_won(SeasonDb, fixture_id, winner_id))

\* POST /season/{career_id}/simulate-next-match
SimulateNextPlayoffMatch(winner_id) ==
    /\ ~(get_next_fixture(SeasonDb) = None)
    /\ winner_id \in Winners(fixtures[get_next_fixture(SeasonDb)])
    /\ ServePlayoffs(simulate_match_won(SeasonDb, get_next_fixture(SeasonDb), winner_id))

\* The ball, simulate-over or simulate-innings request that completes the
\* second innings of the fixture's interactive match.
CompleteInteractive(fixture_id, winner_id) ==
    /\ ~(fixtures[fixture_id].status = "completed")
    /\ \E db \in finalize_playoff_interactive(SeasonDb, fixture_id, winner_id) :
          ServePlayoffs(db)

\* POST /season/{career_id}/playoffs/generate-next
GenerateNextPlayoff ==
    /\ ~(career.phase # "playoffs")
    /\ \E db \in generate_next_playoff_fixture(SeasonDb) : ServePlayoffs(db)

PlayoffFixtures == {n \in DOMAIN fixtures : fixtures[n].fixture_type # "league"}

InitPlayoffs ==
    /\ NoRequests
    /\ \E top4 \in PlayoffOrders : SeasonIs(PlayoffsDb(top4), <<>>)

NextPlayoffs ==
    \/ \E n \in PlayoffFixtures : \E w \in Winners(fixtures[n]) :
          SimulatePlayoffMatch(n, w)
    \/ \E w \in 0..LeagueTeams : SimulateNextPlayoffMatch(w)
    \/ \E n \in PlayoffFixtures : \E w \in Winners(fixtures[n]) :
          CompleteInteractive(n, w)
    \/ GenerateNextPlayoff

SpecPlayoffs == InitPlayoffs /\ [][NextPlayoffs]_vars

\* C19: Qualifier 2 is created only after both Qualifier 1 and the
\* Eliminator are Completed, and its two teams are exactly the loser of
\* Qualifier 1, as team1 and at its home ground, and the winner of the
\* Eliminator.
C19_Qualifier2FromLoserAndWinner ==
    \A n \in DOMAIN fixtures :
        fixtures[n].fixture_type = "qualifier_2" =>
            LET q1 == FixtureOfType(SeasonDb, "qualifier_1")
                elim == FixtureOfType(SeasonDb, "eliminator")
            IN  /\ IsCompleted(SeasonDb, q1)
                /\ IsCompleted(SeasonDb, elim)
                /\ fixtures[q1].winner_id \in {fixtures[q1].team1_id, fixtures[q1].team2_id}
                /\ fixtures[n].team1_id \in {fixtures[q1].team1_id, fixtures[q1].team2_id}
                /\ fixtures[n].team1_id # fixtures[q1].winner_id
                /\ fixtures[n].venue = fixtures[n].team1_id
                /\ fixtures[elim].winner_id \in {fixtures[elim].team1_id,
                                                  fixtures[elim].team2_id}
                /\ fixtures[n].team2_id = fixtures[elim].winner_id

\* C37: a playoff-generation step taken once Qualifier 1 and the Eliminator
\* are both Completed creates Qualifier 2, and one taken once Qualifier 2
\* is Completed creates the Final, whatever the results were, a tie
\* included.
C37_GenerationStepCreatesNextPlayoff ==
    [][GenerateNextPlayoff =>
         LET q1 == FixtureOfType(SeasonDb, "qualifier_1")
             elim == FixtureOfType(SeasonDb, "eliminator")
             q2 == FixtureOfType(SeasonDb, "qualifier_2")
             final == FixtureOfType(SeasonDb, "final")
         IN  /\ (IsCompleted(SeasonDb, q1) /\ IsCompleted(SeasonDb, elim) /\ q2 = None)
                   => \E n \in DOMAIN fixtures' :
                         fixtures'[n].fixture_type = "qualifier_2"
             /\ (IsCompleted(SeasonDb, q1) /\ IsCompleted(SeasonDb, q2) /\ final = None)
                   => \E n \in DOMAIN fixtures' :
                         fixtures'[n].fixture_type = "final"]_vars

\* C20: once the Final is Completed, by interactive play or by offline
\* simulation, the season's phase is Completed, its champion is the winner
\* of the Final, its runner-up the other finalist, and the career status
\* is PostSeason.
C20_SeasonCompletedWithFinal ==
    \A n \in DOMAIN fixtures :
        (fixtures[n].fixture_type = "final" /\ fixtures[n].status = "completed") =>
            /\ career.phase = "completed"
            /\ career.status = "post_season"
            /\ fixtures[n].winner_id \in {fixtures[n].team1_id, fixtures[n].team2_id}
            /\ career.champion_team_id = fixtures[n].winner_id
            /\ career.runner_up_team_id \in {fixtures[n].team1_id, fixtures[n].team2_id}
            /\ career.runner_up_team_id # fixtures[n].winner_id

\* The match-result requests made for a fixture once it was Completed.
ResultsAfterCompletion(fixture_id) ==
    SelectSeq(resultLog, LAMBDA x : x.fixture_id = fixture_id /\ x.completed)

C35_OneFixturePerPlayoffType ==
    \A type \in {"qualifier_1", "eliminator", "qualifier_2", "final"} :
        Cardinality({n \in DOMAIN fixtures : fixtures[n].fixture_type = type}) <= 1

MaxStandingsRequests == 3

\* The fixtures requests are made for: three league fixtures of one team.
StandingsFixtures == {1, 5, 9}

FirstInningsRuns == 150

\* Completed second innings: the chase falls short, ties or succeeds (a
\* side cannot pass the target with its tenth wicket down).
Scorecards ==
    {[innings1_runs |-> FirstInningsRuns, innings2_runs |-> r, innings2_wickets |-> w] :
        r \in {FirstInningsRuns - 2, FirstInningsRuns, FirstInningsRuns + 1,
               FirstInningsRuns + 6},
        w \in {3, AllOut}}
      \ {c \in [innings1_runs : {FirstInningsRuns},
                innings2_runs : {FirstInningsRuns + 1, FirstInningsRuns + 6},
                innings2_wickets : {AllOut}] : TRUE}

NewTeamSeasonStats ==
    [matches_played |-> 0, wins |-> 0, losses |-> 0, no_results |-> 0, points |-> 0]

\* SeasonEngine.initialize_team_stats(teams)
initialize_team_stats == Filled(LeagueTeams, NewTeamSeasonStats)

\* The update with a tie counted as no match at all.
update_team_stats_tie_unplayed(stats, team1, team2, winner) ==
    IF winner = team1
    THEN [stats EXCEPT ![team1] = [@ EXCEPT !.matches_played = @ + 1, !.wins = @ + 1,
                                            !.points = @ + 2],
                       ![team2] = [@ EXCEPT !.matches_played = @ + 1, !.losses = @ + 1]]
    ELSE IF winner = team2
    THEN [stats EXCEPT ![team2] = [@ EXCEPT !.matches_played = @ + 1, !.wins = @ + 1,
                                            !.points = @ + 2],
                       ![team1] = [@ EXCEPT !.matches_played = @ + 1, !.losses = @ + 1]]
    ELSE [stats EXCEPT ![team1] = [@ EXCEPT !.matches_played = @ + 1, !.points = @ + 1],
                       ![team2] = [@ EXCEPT !.matches_played = @ + 1, !.points = @ + 1]]

\* SeasonEngine._update_team_stats(team1, team2, winner, result,
\* batting_first), without the net-run-rate columns.
update_team_stats(stats, team1, team2, winner) ==
    IF winner = team1
    THEN [stats EXCEPT ![team1] = [@ EXCEPT !.matches_played = @ + 1, !.wins = @ + 1,
                                            !.points = @ + 2],
                       ![team2] = [@ EXCEPT !.matches_played = @ + 1, !.losses = @ + 1]]
    ELSE IF winner = team2
    THEN [stats EXCEPT ![team2] = [@ EXCEPT !.matches_played = @ + 1, !.wins = @ + 1,
                                            !.points = @ + 2],
                       ![team1] = [@ EXCEPT !.matches_played = @ + 1, !.losses = @ + 1]]
    ELSE [stats EXCEPT ![team1] = [@ EXCEPT !.matches_played = @ + 1,
                                            !.no_results = @ + 1, !.points = @ + 1],
                       ![team2] = [@ EXCEPT !.matches_played = @ + 1,
                                            !.no_results = @ + 1, !.points = @ + 1]]

\* The result with a level chase given to the side batting second.
match_result_level_wins(card) ==
    IF card.innings2_runs >= card.innings1_runs
    THEN [winner |-> "second", by |-> "wickets", margin |-> 10 - card.innings2_wickets]
    ELSE [winner |-> "first", by |-> "runs",
          margin |-> card.innings1_runs - card.innings2_runs]

\* The rule MatchEngine.simulate_match and _finalize_match_interactive both
\* apply to the completed second innings: which side won, "first" or
\* "second" to bat, and the margin.
match_result(card) ==
    LET target == card.innings1_runs + 1
    IN  IF card.innings2_runs >= target
        THEN [winner |-> "second", by |-> "wickets",
              margin |-> 10 - card.innings2_wickets]
        ELSE IF card.innings2_runs < target - 1
        THEN [winner |-> "first", by |-> "runs",
              margin |-> (target - 1) - card.innings2_runs]
        ELSE [winner |-> "tie", by |-> "tied", margin |-> 0]

\* MatchEngine.simulate_match(team1_players, team2_players,
\* team1_bats_first) when the innings end on card: the sides that batted
\* first and second, and the result with its winner as "team1" or "team2".
match_engine_simulate_match(team1_players, team2_players, team1_bats_first, card) ==
    LET result == match_result(card)
    IN  [first_batting |-> IF team1_bats_first THEN team1_players ELSE team2_players,
         second_batting |-> IF team1_bats_first THEN team2_players ELSE team1_players,
         winner |-> IF result.winner = "second"
                    THEN IF team1_bats_first THEN "team2" ELSE "team1"
                    ELSE IF result.winner = "first"
                    THEN IF team1_bats_first THEN "team1" ELSE "team2"
                    ELSE "tie",
         by |-> result.by, margin |-> result.margin]

\* SeasonEngine.simulate_match(fixture) when the toss puts batting_first in
\* and the innings end on card.
season_simulate_match(db, fixture_id, batting_first, card) ==
    LET team1 == db.fixtures[fixture_id].team1_id
        team2 == db.fixtures[fixture_id].team2_id
        first_xi == IF batting_first = team1 THEN team1 ELSE team2
        second_xi == IF batting_first = team1 THEN team2 ELSE team1
        result == match_engine_simulate_match(first_xi, second_xi,
                                              batting_first = team1, card)
        winner == IF result.winner = "team1"
                  THEN IF batting_first = team1 THEN team1 ELSE team2
                  ELSE IF result.winner = "team2"
                  THEN IF batting_first = team1 THEN team2 ELSE team1
                  ELSE None
    IN  [fixtures |-> [db.fixtures EXCEPT ![fixture_id].status = "completed",
                                          ![fixture_id].winner_id = winner],
         standings |-> update_team_stats(db.standings, team1, team2, winner),
         log |-> [fixture_id |-> fixture_id, card |-> card,
                  first_batting |-> result.first_batting,
                  second_batting |-> result.second_batting,
                  winner_id |-> winner, by |-> result.by, margin |-> result.margin]]

\* _finalize_match_interactive(engine, fixture, db) for a league fixture
\* whose first innings batting_first played and whose innings ended on card.
finalize_interactive_result(db, fixture_id, batting_first, card) ==
    LET team1 == db.fixtures[fixture_id].team1_id
        team2 == db.fixtures[fixture_id].team2_id
        innings1_batting_team_id == batting_first
        innings2_batting_team_id == IF batting_first = team1 THEN team2 ELSE team1
        result == match_result(card)
        winner == IF result.winner = "second" THEN innings2_batting_team_id
                  ELSE IF result.winner = "first" THEN innings1_batting_team_id
                  ELSE None
    IN  [fixtures |-> [db.fixtures EXCEPT ![fixture_id].status = "completed",
                                          ![fixture_id].winner_id = winner],
         standings |-> update_team_stats(db.standings, team1, team2, winner),
         log |-> [fixture_id |-> fixture_id, card |-> card,
                  first_batting |-> innings1_batting_team_id,
                  second_batting |-> innings2_batting_team_id,
                  winner_id |-> winner, by |-> result.by, margin |-> result.margin]]

StandingsDb == [fixtures |-> fixtures, standings |-> standings]

ServeStandings(done) ==
    /\ served < MaxStandingsRequests
    /\ served' = served + 1
    /\ fixtures' = done.fixtures
    /\ standings' = done.standings
    /\ resultLog' = Append(resultLog, done.log)
    /\ UNCHANGED <<career, active_matches, completed_match_results,
                   pending_toss_results>>
    /\ UNCHANGED <<players, auction, entries, teamStates, bids, lastReq, reqs,
                   careersVars, playing_xi>>

\* POST /season/{career_id}/simulate-match/{fixture_id}
SimulateMatchResult(fixture_id, batting_first, card) ==
    /\ ~(fixtures[fixture_id].status # "scheduled")
    /\ batting_first \in {fixtures[fixture_id].team1_id, fixtures[fixture_id].team2_id}
    /\ ServeStandings(season_simulate_match(StandingsDb, fixture_id, batting_first, card))

\* The request (ball, simulate-over or simulate-innings) that completes the
\* second innings of the interactive match of a fixture.
CompleteInteractiveResult(fixture_id, batting_first, card) ==
    /\ fixtures[fixture_id].status \in {"scheduled", "in_progress"}
    /\ batting_first \in {fixtures[fixture_id].team1_id, fixtures[fixture_id].team2_id}
    /\ ServeStandings(finalize_interactive_result(StandingsDb, fixture_id,
                                                  batting_first, card))

\* The season as generate_fixtures leaves it.
InitStandings ==
    /\ DbIs(complete_auction(NewCareerDb(<<>>)))
    /\ lastReq = [op |-> "auto_complete", ok |-> TRUE, finalised |-> {}]
    /\ NoCareers
    /\ NoRequests
    /\ served = 0
    /\ resultLog = <<>>
    /\ fixtures = [n \in DOMAIN generate_league_fixtures |->
                      generate_league_fixtures[n] @@ [winner_id |-> None]]
    /\ standings = initialize_team_stats
    /\ career = [status |-> "in_season", phase |-> "league_stage",
                 auction_completed |-> TRUE]
    /\ active_matches = <<>>
    /\ completed_match_results = <<>>
    /\ pending_toss_results = <<>>
    /\ playing_xi = <<>>

NextStandings ==
    \/ \E fixture_id \in StandingsFixtures, batting_first \in 1..LeagueTeams,
          card \in Scorecards : SimulateMatchResult(fixture_id, batting_first, card)
    \/ \E fixture_id \in StandingsFixtures, batting_first \in 1..LeagueTeams,
          card \in Scorecards : CompleteInteractiveResult(fixture_id, batting_first, card)

SpecStandings == InitStandings /\ [][NextStandings]_vars

\* C25: in every standings row matches played = wins + losses + no_results
\* and points = 2 * wins + no_results, whether the matches are completed
\* interactively or by simulation.
C25_StandingsRowsAddUp ==
    \A t \in DOMAIN standings :
        /\ standings[t].matches_played
              = standings[t].wins + standings[t].losses + standings[t].no_results
        /\ standings[t].points = 2 * standings[t].wins + standings[t].no_results

\* A team that has won a match and tied another.
C25_RowWithWinAndTie ==
    \E t \in DOMAIN standings : standings[t].wins >= 1 /\ standings[t].no_results >= 1

\* C27: when the second innings is complete the side batting second wins
\* by 10 - wickets wickets if its runs reach the target, the side batting
\* first wins by target - 1 - runs runs if they stay below target - 1, and
\* otherwise the match is tied with no winner.
C27_ResultFollowsSecondInnings ==
    \A i \in DOMAIN resultLog :
        LET e == resultLog[i]
            target == e.card.innings1_runs + 1
        IN  /\ fixtures[e.fixture_id].winner_id = e.winner_id
            /\ e.card.innings2_runs >= target =>
                  /\ e.winner_id = e.second_batting
                  /\ e.by = "wickets"
                  /\ e.margin = 10 - e.card.innings2_wickets
            /\ e.card.innings2_runs < target - 1 =>
                  /\ e.winner_id = e.first_batting
                  /\ e.by = "runs"
                  /\ e.margin = target - 1 - e.card.innings2_runs
            /\ e.card.innings2_runs = target - 1 =>
                  /\ e.winner_id = None
                  /\ e.by = "tied"

\* A tie, a win by 7 wickets and a win by 2 runs have been recorded.
C27_ThreeKindsOfResult ==
    /\ \E i \in DOMAIN resultLog : resultLog[i].by = "tied"
    /\ \E i \in DOMAIN resultLog :
          resultLog[i].by = "wickets" /\ resultLog[i].margin = 7
    /\ \E i \in DOMAIN resultLog :
          resultLog[i].by = "runs" /\ resultLog[i].margin = 2

(***************************************************************************)
(* The standings under requests served at the same time (api/match.py).    *)
(* The endpoints are plain def functions run by worker threads on the      *)
(* engine object they found in active_matches.  Fixture LiveFixture has a  *)
(* live session late in its second innings; a request is the lookup, the   *)
(* delivery, and the finalisation when the innings is complete after it.   *)
(***************************************************************************)
LiveFixture == CHOOSE f \in StandingsFixtures : \A g \in StandingsFixtures : f <= g

playedVars == <<players, auction, entries, teamStates, bids, lastReq, careersVars,
                career, pending_toss_results, playing_xi>>

\* The engine object of the live fixture, in whichever dict holds it.
LiveEngine ==
    IF LiveFixture \in DOMAIN active_matches THEN active_matches[LiveFixture]
    ELSE completed_match_results[LiveFixture]

\* play_ball up to the delivery: the session is looked up, and a second
\* innings that is complete already is refused.
EnterBallRequest(r) ==
    /\ reqs[r].pc \in {"idle", "done"}
    /\ reqs[r].served < MaxRequests
    /\ reqs' = [reqs EXCEPT ![r] =
                  IF LiveFixture \notin DOMAIN active_matches
                        \/ active_matches[LiveFixture].complete
                  THEN [IdleReq EXCEPT !.pc = "done", !.op = "ball",
                                       !.served = reqs[r].served + 1]
                  ELSE [IdleReq EXCEPT !.pc = "entered", !.op = "ball",
                                       !.served = reqs[r].served + 1]]
    /\ UNCHANGED <<fixtures, standings, active_matches, completed_match_results,
                   served, resultLog>>
    /\ UNCHANGED playedVars

\* The delivery, on the engine object the request holds: it leaves the
\* second innings complete on card, or still going.
DeliverBall(r, ends, card) ==
    /\ reqs[r].pc = "entered"
    /\ LiveEngine.complete => (ends /\ card = LiveEngine.card)
    /\ LET engine == IF ends THEN [LiveEngine EXCEPT !.complete = TRUE, !.card = card]
                     ELSE LiveEngine
       IN  IF LiveFixture \in DOMAIN active_matches
           THEN /\ active_matches' = [active_matches EXCEPT ![LiveFixture] = engine]
                /\ UNCHANGED completed_match_results
           ELSE /\ completed_match_results' =
                      [completed_match_results EXCEPT ![LiveFixture] = engine]
                /\ UNCHANGED active_matches
    /\ reqs' = [reqs EXCEPT ![r].pc = IF ends THEN "finalizing" ELSE "done",
                            ![r].ok = TRUE]
    /\ UNCHANGED <<fixtures, standings, served, resultLog>>
    /\ UNCHANGED playedVars

\* _finalize_match_interactive, _store_completed_match and
\* del active_matches[fixture_id], which raises KeyError when the entry
\* is gone.
FinalizeBallRequest(r) ==
    LET done == finalize_interactive_result(StandingsDb, LiveFixture,
                                            LiveEngine.batting_first, LiveEngine.card)
    IN  /\ reqs[r].pc = "finalizing"
        /\ fixtures' = done.fixtures
        /\ standings' = done.standings
        /\ resultLog' = Append(resultLog, done.log)
        /\ completed_match_results' = (LiveFixture :> LiveEngine)
        /\ active_matches' = <<>>
        /\ reqs' = [reqs EXCEPT ![r].pc = "done",
                                ![r].ok = (LiveFixture \in DOMAIN active_matches)]
        /\ UNCHANGED served
        /\ UNCHANGED playedVars

\* The season with the live fixture started (start_match) and not finished.
InitStandingsConc ==
    /\ DbIs(complete_auction(NewCareerDb(<<>>)))
    /\ lastReq = [op |-> "auto_complete", ok |-> TRUE, finalised |-> {}]
    /\ NoCareers
    /\ NoRequests
    /\ served = 0
    /\ resultLog = <<>>
    /\ fixtures = [n \in DOMAIN generate_league_fixtures |->
                      [generate_league_fixtures[n] @@ [winner_id |-> None]
                          EXCEPT !.status = IF n = LiveFixture THEN "in_progress"
                                            ELSE @]]
    /\ standings = initialize_team_stats
    /\ career = [status |-> "in_season", phase |-> "league_stage",
                 auction_completed |-> TRUE]
    /\ \E t \in {generate_league_fixtures[LiveFixture].team1_id,
                 generate_league_fixtures[LiveFixture].team2_id} :
          active_matches = (LiveFixture :> [batting_first |-> t, complete |-> FALSE,
                                            card |-> <<>>])
    /\ completed_match_results = <<>>
    /\ pending_toss_results = <<>>
    /\ playing_xi = <<>>

NextStandingsConc ==
    \/ \E r \in Threads : EnterBallRequest(r)
    \/ \E r \in Threads, ends \in BOOLEAN, card \in Scorecards : DeliverBall(r, ends, card)
    \/ \E r \in Threads : FinalizeBallRequest(r)
    \/ \E fixture_id \in StandingsFixtures \ {LiveFixture},
          batting_first \in 1..LeagueTeams, card \in Scorecards :
          SimulateMatchResult(fixture_id, batting_first, card)

SpecStandingsConc == InitStandingsConc /\ [][NextStandingsConc]_vars

RECURSIVE MatchesPlayed(_, _)
MatchesPlayed(stats, n) ==
    IF n = 0 THEN 0 ELSE stats[n].matches_played + MatchesPlayed(stats, n - 1)

\* C39: each fixture's result is applied to the standings exactly once: the
\* matches played, summed over the teams, are twice the fixtures Completed.
C39_ResultAppliedOnce ==
    MatchesPlayed(standings, Len(standings))
        = 2 * Cardinality({n \in DOMAIN fixtures : fixtures[n].status = "completed"})

(***************************************************************************)
(* The toss, and the server restarted during a match.  active_matches,     *)
(* completed_match_results and pending_toss_results are module             *)
(* dictionaries of api/match.py: a restart of the server empties them,     *)
(* while the fixture rows keep their status.                               *)
(***************************************************************************)
\* POST /match/{career_id}/match/{fixture_id}/toss
DoToss(fixture_id, toss_winner_id) ==
    /\ ~(fixture_id \notin DOMAIN fixtures)
    /\ ~(fixtures[fixture_id].status = "completed")
    /\ toss_winner_id \in {fixtures[fixture_id].team1_id, fixtures[fixture_id].team2_id}
    /\ ServeRequest
    /\ pending_toss_results' =
           (fixture_id :> [toss_winner_id |-> toss_winner_id, user_team_id |-> UserTeam])
               @@ pending_toss_results
    /\ UNCHANGED <<fixtures, career, active_matches, completed_match_results>>

\* The server process is restarted; lastReq records, as history, the
\* fixtures whose sessions the restart lost.
ServerRestart ==
    /\ active_matches' = <<>>
    /\ completed_match_results' = <<>>
    /\ pending_toss_results' = <<>>
    /\ lastReq' = [op |-> "restart", ok |-> TRUE, finalised |-> {},
                   lost |-> {f \in DOMAIN active_matches :
                               fixtures[f].status = "in_progress"}]
    /\ UNCHANGED <<fixtures, career, served, resultLog>>
    /\ UNCHANGED <<players, auction, entries, teamStates, bids, reqs, careersVars,
                   standings, playing_xi>>

InitRestart ==
    /\ NoRequests
    /\ \/ SeasonIs(LateSeason, <<>>)
       \/ SeasonIs(LateMatch, UserFixture :> LateEngine)

NextRestart ==
    \/ \E t \in {UserTeam, Opponent} : DoToss(UserFixture, t)
    \/ \E t \in {UserTeam, Opponent} : StartMatch(UserFixture, t)
    \/ \E o \in PlayOutcomes : PlayBall(UserFixture, o)
    \/ SimulateOver(UserFixture)
    \/ ServerRestart

SpecRestart == InitRestart /\ [][NextRestart]_vars

\* The fixture is InProgress and its session is lost.
SessionLost(fixture_id) ==
    /\ fixtures[fixture_id].status = "in_progress"
    /\ fixture_id \notin DOMAIN active_matches

\* C28: a start_match request on a fixture that is InProgress with no entry
\* in active_matches succeeds: it creates a fresh session at innings 1 with
\* 0 runs and 0 balls and a first bowler selected, clears the pending toss
\* entry and leaves the fixture InProgress.
C28_StartAfterLostSession ==
    /\ [](SessionLost(UserFixture) /\ served < MaxMatchRequests
             => ENABLED StartMatch(UserFixture, UserTeam))
    /\ [][(SessionLost(UserFixture)
              /\ \E t \in {UserTeam, Opponent} : StartMatch(UserFixture, t))
          => /\ UserFixture \in DOMAIN active_matches'
             /\ active_matches'[UserFixture].current = 1
             /\ active_matches'[UserFixture].innings2 = None
             /\ active_matches'[UserFixture].innings1.total_runs = 0
             /\ active_matches'[UserFixture].innings1.overs = 0
             /\ active_matches'[UserFixture].innings1.balls = 0
             /\ active_matches'[UserFixture].innings1.wickets = 0
             /\ active_matches'[UserFixture].innings1.current_bowler_id
                   \in select_bowler(setup_innings(UserTeam, None))
             /\ UserFixture \notin DOMAIN pending_toss_results'
             /\ fixtures'[UserFixture].status = "in_progress"]_vars

\* The match started again after a restart of the server lost its session,
\* sixteen overs into the first innings.
C28_RestartedAfterLostSession ==
    /\ lastReq.op = "restart"
    /\ UserFixture \in lastReq.lost
    /\ UserFixture \in DOMAIN active_matches
    /\ active_matches[UserFixture].innings1.overs = 0
    /\ fixtures[UserFixture].status = "in_progress"

(***************************************************************************)
(* The career limit (api/career.py).  create_career and delete_career are  *)
(* plain def endpoints served by worker threads, each request with a       *)
(* session of its own; a session sees what the others have committed.  A   *)
(* create request counts the user's careers, then inserts and commits; a   *)
(* delete request looks its career up, then deletes and commits.  SQLite   *)
(* lets one connection write at a time, so the insert-to-commit and the    *)
(* delete-to-commit parts are each a step.                                 *)
(***************************************************************************)
Users == {1, 2}

TeamIndexes == {0, 8}

MaxCareerRequests == 3

outsideCareerLimitVars ==
    <<players, auction, entries, teamStates, bids, career, lastReq, matchVars>>

\* db.query(Career).filter_by(user_id=current_user.id).count()
existing_count(tbl, user_id) ==
    Cardinality({c \in DOMAIN tbl : tbl[c].user_id = user_id})

\* The id of the next row of careers (INTEGER PRIMARY KEY: largest + 1).
NextCareerId(tbl) ==
    IF DOMAIN tbl = {} THEN 1
    ELSE (CHOOSE m \in DOMAIN tbl : \A c \in DOMAIN tbl : c <= m) + 1

\* create_career up to the two checks: the career limit and the team index.
BeginCreateCareer(r, user_id, team_index) ==
    /\ reqs[r].pc \in {"idle", "done"}
    /\ reqs[r].served < MaxCareerRequests
    /\ reqs' = [reqs EXCEPT ![r] =
                  IF \/ existing_count(careerTbl, user_id) >= MAX_CAREERS
                     \/ team_index < 0 \/ team_index > 7
                  THEN [IdleReq EXCEPT !.pc = "done", !.op = "create_career",
                                       !.served = reqs[r].served + 1,
                                       !.snap = [user_id |-> user_id, career_id |-> None]]
                  ELSE [IdleReq EXCEPT !.pc = "counted", !.op = "create_career",
                                       !.served = reqs[r].served + 1,
                                       !.snap = [user_id |-> user_id, career_id |-> None]]]
    /\ UNCHANGED careersVars
    /\ UNCHANGED outsideCareerLimitVars

\* create_career from db.add(career) to db.commit(): the career, its
\* players and its auction.
CommitCreateCareer(r) ==
    LET id == NextCareerId(careerTbl)
    IN  /\ reqs[r].pc = "counted"
        /\ careerTbl' = careerTbl @@ (id :> [user_id |-> reqs[r].snap.user_id])
        /\ careerCount' = careerCount + 1
        /\ playerTbl' = playerTbl \o [i \in 1..PoolSize |->
                                        [origin |-> id, team_id |-> None]]
        /\ auctionTbl' = Append(auctionTbl, [status |-> "not_started", entries |-> <<>>])
        /\ reqs' = [reqs EXCEPT ![r].pc = "done", ![r].ok = TRUE, ![r].wrote = TRUE,
                                ![r].snap.career_id = id]
        /\ UNCHANGED outsideCareerLimitVars

\* delete_career up to the lookup of the user's career.
BeginDeleteCareer(r, user_id, career_id) ==
    /\ reqs[r].pc \in {"idle", "done"}
    /\ reqs[r].served < MaxCareerRequests
    /\ reqs' = [reqs EXCEPT ![r] =
                  IF career_id \in DOMAIN careerTbl
                        /\ careerTbl[career_id].user_id = user_id
                  THEN [IdleReq EXCEPT !.pc = "found", !.op = "delete_career",
                                       !.served = reqs[r].served + 1,
                                       !.snap = [user_id |-> user_id,
                                                 career_id |-> career_id]]
                  ELSE [IdleReq EXCEPT !.pc = "done", !.op = "delete_career",
                                       !.served = reqs[r].served + 1,
                                       !.snap = [user_id |-> user_id,
                                                 career_id |-> career_id]]]
    /\ UNCHANGED careersVars
    /\ UNCHANGED outsideCareerLimitVars

\* db.delete(career); db.commit().  The flush either removes the row or
\* raises (the row is gone already, or the career's season keeps it) and
\* the request fails with the table as it was.
CommitDeleteCareer(r) ==
    LET id == reqs[r].snap.career_id
    IN  /\ reqs[r].pc = "found"
        /\ \E removed \in {b \in BOOLEAN : b => id \in DOMAIN careerTbl} :
              /\ careerTbl' = IF removed
                              THEN [c \in DOMAIN careerTbl \ {id} |-> careerTbl[c]]
                              ELSE careerTbl
              /\ reqs' = [reqs EXCEPT ![r].pc = "done", ![r].ok = removed,
                                      ![r].wrote = removed]
        /\ UNCHANGED <<careerCount, playerTbl, auctionTbl>>
        /\ UNCHANGED outsideCareerLimitVars

InitCareerLimit == InitCareers

NextCareerLimit ==
    \/ \E r \in Threads, user_id \in Users, team_index \in TeamIndexes :
          BeginCreateCareer(r, user_id, team_index)
    \/ \E r \in Threads : CommitCreateCareer(r)
    \/ \E r \in Threads, user_id \in Users,
             career_id \in DOMAIN careerTbl \cup {NextCareerId(careerTbl)} :
          BeginDeleteCareer(r, user_id, career_id)
    \/ \E r \in Threads : CommitDeleteCareer(r)

SpecCareerLimit == InitCareerLimit /\ [][NextCareerLimit]_vars

\* C30: after any sequence and any interleaving of create_career and
\* delete_career requests, a user owns at most 3 careers (MAX_CAREERS).
C30_AtMostMaxCareersPerUser ==
    \A user_id \in Users : existing_count(careerTbl, user_id) <= MAX_CAREERS

(***************************************************************************)
(* The playing XI (api/career.py set_playing_xi, api/season.py             *)
(* _auto_select_xi and generate_fixtures).  The user's team holds twelve   *)
(* players bought earlier in the auction; the second team holds twelve or  *)
(* none; the last three players of the pool are still to be auctioned,     *)
(* and their auction is reduced to its result: sold to one of the two      *)
(* teams, or unsold.  The other six teams buy nobody.                      *)
(***************************************************************************)
XiBuyer == Opponent

SquadRoles ==
    << "wicket_keeper", "bowler", "bowler", "bowler", "bowler", "bowler",
       "all_rounder", "batsman", "batsman", "batsman", "batsman", "batsman" >>

\* The twelve players of a squad, rated from 80 downwards, owned by team.
Squad(team) ==
    [k \in DOMAIN SquadRoles |->
        [NewPlayer(SquadRoles[k], 80 - k, k \in {2, 8}, 2000000)
            EXCEPT !.team_id = team]]

XiLivePool ==
    << NewPlayer("bowler", 90, TRUE, 2000000),
       NewPlayer("wicket_keeper", 85, FALSE, 2000000),
       NewPlayer("batsman", 60, FALSE, 2000000) >>

XiEntries(rows) ==
    [i \in DOMAIN rows |->
        [player_id |-> i,
         status |-> IF i > 2 * Len(SquadRoles) THEN "available"
                    ELSE IF rows[i].team_id = None THEN "unsold" ELSE "sold"]]

\* The requests to set the user's XI that are explored: a valid XI, one
\* with the twelfth player, one with a player of the pool's tail, ten
\* players, a player named twice, a player of the second team, and an XI
\* without a wicket keeper.
XiRequests ==
    { <<1, 2, 3, 4, 5, 6, 7, 8, 9, 10, 11>>,
      <<12, 11, 10, 9, 8, 7, 6, 5, 4, 3, 1>>,
      <<1, 2, 3, 4, 5, 6, 7, 8, 9, 10, 26>>,
      <<1, 2, 3, 4, 5, 6, 7, 8, 9, 10>>,
      <<1, 2, 3, 4, 5, 6, 7, 8, 9, 10, 10>>,
      <<1, 2, 3, 4, 5, 6, 7, 8, 9, 10, 13>>,
      <<2, 3, 4, 5, 6, 7, 8, 9, 10, 11, 12>> }

IdsOf(seq) == {seq[k] : k \in DOMAIN seq}

CountIn(tbl, ids, P(_)) == Cardinality({p \in ids : P(tbl[p])})

\* PlayingXIValidator.validate(players)["valid"], overseas players included
validate_players(tbl, ids) ==
    LET wk_count == CountIn(tbl, ids, LAMBDA p : p.role = "wicket_keeper")
        overseas_count == CountIn(tbl, ids, LAMBDA p : p.is_overseas)
        bowler_count == CountIn(tbl, ids, LAMBDA p : p.role = "bowler")
        ar_count == CountIn(tbl, ids, LAMBDA p : p.role = "all_rounder")
    IN  /\ ~(Cardinality(ids) # 11)
        /\ ~(wk_count = 0)
        /\ ~(overseas_count > 4)
        /\ (bowler_count >= 5 \/ (bowler_count >= 4 /\ ar_count >= 1))

\* list.sort(key=overall_rating, reverse=True): stable.
RECURSIVE sort_by_rating(_, _)
sort_by_rating(tbl, seq) ==
    IF seq = <<>> THEN <<>>
    ELSE LET k == CHOOSE k \in DOMAIN seq : \A j \in DOMAIN seq :
                      \/ tbl[seq[j]].overall_rating < tbl[seq[k]].overall_rating
                      \/ /\ tbl[seq[j]].overall_rating = tbl[seq[k]].overall_rating
                         /\ k <= j
         IN  <<seq[k]>> \o sort_by_rating(tbl, SubSeq(seq, 1, k - 1)
                                                  \o SubSeq(seq, k + 1, Len(seq)))

\* team.players, and those of a role.
TeamPlayers(tbl, team) ==
    SelectSeq([i \in DOMAIN tbl |-> i], LAMBDA i : tbl[i].team_id = team)

OfRole(tbl, seq, role) == SelectSeq(seq, LAMBDA i : tbl[i].role = role)

\* can_add(player)
can_add(tbl, xi, p) ==
    ~(tbl[p].is_overseas
        /\ CountIn(tbl, IdsOf(xi), LAMBDA q : q.is_overseas) >= 4)

\* "for p in cands: if can_add(p): add_player(p); break"
RECURSIVE add_first(_, _, _)
add_first(tbl, xi, cands) ==
    IF cands = <<>> THEN xi
    ELSE IF Head(cands) \notin IdsOf(xi) /\ can_add(tbl, xi, Head(cands))
    THEN Append(xi, Head(cands))
    ELSE add_first(tbl, xi, Tail(cands))

\* The loop that adds bowlers until the XI holds five of them.
RECURSIVE add_bowlers(_, _, _)
add_bowlers(tbl, xi, cands) ==
    IF cands = <<>> THEN xi
    ELSE IF CountIn(tbl, IdsOf(xi), LAMBDA q : q.role = "bowler") >= 5 THEN xi
    ELSE add_bowlers(tbl, IF can_add(tbl, xi, Head(cands))
                          THEN Append(xi, Head(cands)) ELSE xi, Tail(cands))

\* The loops that fill the XI up to eleven, within the overseas limit or
\* regardless of it.
RECURSIVE fill_to_eleven(_, _, _, _)
fill_to_eleven(tbl, xi, cands, within_limit) ==
    IF cands = <<>> THEN xi
    ELSE IF Len(xi) >= 11 THEN xi
    ELSE fill_to_eleven(tbl,
            IF Head(cands) \notin IdsOf(xi)
                  /\ (within_limit => can_add(tbl, xi, Head(cands)))
            THEN Append(xi, Head(cands)) ELSE xi,
            Tail(cands), within_limit)

\* An XI of the best eleven by rating, whatever their roles.
auto_select_best_eleven(tbl, team) ==
    SubSeq(sort_by_rating(tbl, TeamPlayers(tbl, team)), 1, 11)

\* _auto_select_xi(team)
auto_select_xi(tbl, team) ==
    LET squad == TeamPlayers(tbl, team)
        wks == sort_by_rating(tbl, OfRole(tbl, squad, "wicket_keeper"))
        batsmen == sort_by_rating(tbl, OfRole(tbl, squad, "batsman"))
        all_rounders == sort_by_rating(tbl, OfRole(tbl, squad, "all_rounder"))
        bowlers == sort_by_rating(tbl, OfRole(tbl, squad, "bowler"))
        xi1 == add_first(tbl, <<>>, wks)
        xi2 == add_bowlers(tbl, xi1, bowlers)
        bowler_count == CountIn(tbl, IdsOf(xi2), LAMBDA q : q.role = "bowler")
        \* needed_ar = max(1, 5 - bowler_count - 4) is 1
        xi3 == IF bowler_count < 5 THEN add_first(tbl, xi2, all_rounders) ELSE xi2
        remaining_players ==
            sort_by_rating(tbl, batsmen \o SelectSeq(all_rounders,
                                               LAMBDA i : i \notin IdsOf(xi3)))
        xi4 == fill_to_eleven(tbl, xi3, remaining_players, TRUE)
        all_remaining ==
            sort_by_rating(tbl, SelectSeq(squad, LAMBDA i : i \notin IdsOf(xi4)))
    IN  IF Len(xi4) < 11 THEN fill_to_eleven(tbl, xi4, all_remaining, FALSE)
        ELSE xi4

outsideXiVars ==
    <<auction, teamStates, bids, reqs, careersVars, active_matches,
      completed_match_results, served, resultLog, pending_toss_results>>

\* next-player, the bidding and finalize-player for the entry of player i,
\* the first that is available.
XiAuctionPlayer(i, team) ==
    /\ career.status = "auction"
    /\ entries[i].status = "available"
    /\ \A j \in 1..(i - 1) : entries[j].status # "available"
    /\ entries' = [entries EXCEPT ![i].status =
                      IF team = None THEN "unsold" ELSE "sold"]
    /\ players' = [players EXCEPT ![i].team_id = team]
    /\ lastReq' = [op |-> "finalize", ok |-> TRUE, finalised |-> {i}]
    /\ UNCHANGED <<career, fixtures, standings, playing_xi>>
    /\ UNCHANGED outsideXiVars

\* next-player when no entry is available: the auction is completed.
XiCompleteAuction ==
    /\ career.status = "auction"
    /\ \A i \in DOMAIN entries : entries[i].status # "available"
    /\ career' = [status |-> "pre_season", phase |-> "league_stage",
                  auction_completed |-> TRUE]
    /\ lastReq' = [op |-> "next_player", ok |-> TRUE, finalised |-> {}]
    /\ UNCHANGED <<players, entries, fixtures, standings, playing_xi>>
    /\ UNCHANGED outsideXiVars

\* POST /career/{career_id}/playing-xi
SetPlayingXI(player_ids) ==
    LET found == {p \in IdsOf(player_ids) \cap DOMAIN players :
                     players[p].team_id = UserTeam}
        ok == /\ ~(Cardinality(found) # Len(player_ids))
              /\ validate_players(players, found)
    IN  /\ ~(career.status \notin {"pre_season", "in_season"})
        /\ playing_xi' = IF ok THEN (UserTeam :> player_ids) @@ playing_xi
                         ELSE playing_xi
        /\ lastReq' = [op |-> "set_playing_xi", ok |-> ok, finalised |-> {}]
        /\ UNCHANGED <<players, entries, career, fixtures, standings>>
        /\ UNCHANGED outsideXiVars

\* POST /season/{career_id}/generate-fixtures, with the XI it stores for
\* every team but the user's: one row for each player selected.
GenerateFixturesXI ==
    LET selected == [t \in (1..LeagueTeams) \ {UserTeam} |->
                        auto_select_xi(players, t)]
        stored == {t \in DOMAIN selected : selected[t] # <<>>}
    IN  /\ ~(~career.auction_completed)
        /\ ~(Len(fixtures) > 0)
        /\ fixtures' = generate_league_fixtures
        /\ standings' = initialize_team_stats
        /\ playing_xi' = [t \in stored |-> selected[t]] @@ playing_xi
        /\ career' = [career EXCEPT !.status = "in_season",
                                    !.phase = "league_stage"]
        /\ lastReq' = [op |-> "generate_fixtures", ok |-> TRUE, finalised |-> {}]
        /\ UNCHANGED <<players, entries>>
        /\ UNCHANGED outsideXiVars

InitXI ==
    /\ \E bought \in {None, XiBuyer} :
          /\ players = Squad(UserTeam) \o Squad(bought) \o XiLivePool
          /\ entries = XiEntries(players)
    /\ auction = [NewAuction EXCEPT !.status = "in_progress"]
    /\ teamStates = <<>>
    /\ bids = <<>>
    /\ career = [status |-> "auction", phase |-> "auction",
                 auction_completed |-> FALSE]
    /\ lastReq = [op |-> "finalize", ok |-> TRUE, finalised |-> {}]
    /\ NoRequests
    /\ NoCareers
    /\ NoMatches

NextXI ==
    \/ \E i \in DOMAIN entries, team \in {None, UserTeam, XiBuyer} :
          XiAuctionPlayer(i, team)
    \/ XiCompleteAuction
    \/ \E player_ids \in XiRequests : SetPlayingXI(player_ids)
    \/ GenerateFixturesXI

SpecXI == InitXI /\ [][NextXI]_vars

\* C31: a playing XI stored for a team has exactly 11 entries with distinct
\* players, every one of them a player of that team, whether it was set by
\* the user or selected for an AI team.
C31_StoredXiIsElevenOfTheTeam ==
    \A t \in DOMAIN playing_xi :
        /\ Len(playing_xi[t]) = 11
        /\ Cardinality(IdsOf(playing_xi[t])) = 11
        /\ \A p \in IdsOf(playing_xi[t]) : players[p].team_id = t

(***************************************************************************)
(* The minimum overall rating of a generated player                        *)
(* (generators/player_generator.py _ensure_minimum_ovr, models/player.py   *)
(* overall_rating).  The rating is int() of a sum of floats; the sums are  *)
(* kept here in tenths.  A sum that is a whole number may come out of the  *)
(* float arithmetic just below it (0.7 + 0.2 + 0.1 < 1), and int() then    *)
(* gives one less; with the weights 0.5, 0.4, 0.1 of a wicket keeper it    *)
(* does not.  One step of the model is one test of the while loop with     *)
(* the body that follows it.                                               *)
(***************************************************************************)
MinOvr == 55

MaxAttribute == 100

AttributeValues == {1, 10, 25, 40, 55, 70, 85, 100}

\* The history counter of the loop's iterations stops counting here.
MaxBoostsCounted == 6

PlayerRoles == {"batsman", "bowler", "all_rounder", "wicket_keeper"}

\* Ten times the weighted sum of Player.overall_rating.
rating_tenths(p) ==
    CASE p.role = "batsman" -> 7 * p.batting + 2 * p.fielding + p.fitness
      [] p.role = "bowler" -> 7 * p.bowling + 2 * p.fielding + p.fitness
      [] p.role = "all_rounder" ->
            4 * p.batting + 4 * p.bowling + p.fielding + p.fitness
      [] p.role = "wicket_keeper" -> 5 * p.batting + 4 * p.fielding + p.fitness

\* Player.overall_rating: the values int() can give.
overall_rating(p) ==
    LET tenths == rating_tenths(p)
    IN  IF tenths % 10 = 0 /\ p.role # "wicket_keeper"
        THEN {tenths \div 10, (tenths \div 10) - 1}
        ELSE {tenths \div 10}

capped(v) == IF v < MaxAttribute THEN v ELSE MaxAttribute

\* The boost given to the batting of every player, whatever the role.
boost_batting(p, diff) == [p EXCEPT !.batting = capped(@ + diff)]

\* The body of the loop of _ensure_minimum_ovr.
boost_primary(p, diff) ==
    CASE p.role = "batsman" -> [p EXCEPT !.batting = capped(@ + diff)]
      [] p.role = "bowler" -> [p EXCEPT !.bowling = capped(@ + diff)]
      [] p.role = "all_rounder" ->
            LET boost == (diff \div 2) + 1
            IN  [p EXCEPT !.batting = capped(@ + boost),
                          !.bowling = capped(@ + boost)]
      [] p.role = "wicket_keeper" ->
            LET boost_bat == ((diff * 5) \div 9) + 1
                boost_field == ((diff * 4) \div 9) + 1
            IN  [p EXCEPT !.batting = capped(@ + boost_bat),
                          !.fielding = capped(@ + boost_field)]

outsideOvrVars ==
    <<auction, entries, teamStates, bids, career, reqs, careersVars, matchVars>>

\* One test of "while player.overall_rating < min_ovr" and what follows
\* it: the body, or the return.
EnsureMinimumOvrStep ==
    /\ ~lastReq.ok
    /\ \E tested \in overall_rating(players[1]) :
          IF tested < MinOvr
          THEN /\ \E rated \in overall_rating(players[1]) :
                     players' = [players EXCEPT ![1] =
                                    boost_primary(@, MinOvr - rated + 2)]
               /\ lastReq' = [lastReq EXCEPT !.boosts =
                                 IF @ < MaxBoostsCounted THEN @ + 1 ELSE @]
          ELSE /\ lastReq' = [lastReq EXCEPT !.ok = TRUE, !.rating = tested]
               /\ UNCHANGED players
    /\ UNCHANGED outsideOvrVars

InitOvr ==
    /\ \E role \in PlayerRoles :
       \E batting \in AttributeValues, bowling \in AttributeValues,
          fielding \in AttributeValues, fitness \in AttributeValues :
          players = << [role |-> role, batting |-> batting, bowling |-> bowling,
                        fielding |-> fielding, fitness |-> fitness] >>
    /\ lastReq = [op |-> "ensure_minimum_ovr", ok |-> FALSE, finalised |-> {},
                  boosts |-> 0, rating |-> 0]
    /\ auction = NewAuction
    /\ entries = <<>>
    /\ teamStates = <<>>
    /\ bids = <<>>
    /\ career = [status |-> "setup", phase |-> "not_started",
                 auction_completed |-> FALSE]
    /\ NoRequests
    /\ NoCareers
    /\ NoMatches

NextOvr == EnsureMinimumOvrStep

SpecOvr == InitOvr /\ [][NextOvr]_vars

\* The loop goes on as long as its test fails.
SpecOvrFair == SpecOvr /\ WF_vars(NextOvr)

\* C32: for a player of any role with attributes in 1..100,
\* _ensure_minimum_ovr terminates, and the player it returns has an
\* overall rating of at least 55 with every attribute still in 1..100.
C32_MinimumOvrReached ==
    /\ <>(lastReq.ok)
    /\ [](lastReq.ok =>
            /\ lastReq.rating >= MinOvr
            /\ lastReq.rating \in overall_rating(players[1])
            /\ \A f \in {"batting", "bowling", "fielding", "fitness"} :
                  players[1][f] \in 1..MaxAttribute)

\* A player returned after the loop boosted it three times.
C32_ReturnedAfterThreeBoosts ==
    /\ lastReq.op = "ensure_minimum_ovr"
    /\ lastReq.ok
    /\ lastReq.boosts >= 3

(***************************************************************************)
(* The bowlers' figures.  A BowlerSpell is overs and balls: the overs are  *)
(* bowler_spells above; spell_balls, total over the XI like it, are the    *)
(* balls of the spells.  play_ball counts a legal delivery in spell.balls  *)
(* (api/match.py), simulate_over only sets it to 0 at the end of the over  *)
(* (match_engine.py).                                                      *)
(***************************************************************************)
\* simulate-innings is explored with at most this many overs to bowl.
MaxSpellOvers == 1

\* The deliveries explored: a dot ball, a single and a wicket.
SpellOutcomes == {o \in calculate_ball_outcome : o.runs <= 1}

\* An innings with the balls of its spells, none bowled when it is set up.
with_spell_balls(innings) ==
    IF "spell_balls" \in DOMAIN innings THEN innings
    ELSE innings @@ [spell_balls |-> Zeros(Len(PlayingXI))]

with_spells(engine) ==
    [engine EXCEPT !.innings1 = with_spell_balls(@),
                   !.innings2 = IF engine.current = 1 THEN @ ELSE with_spell_balls(@)]

\* simulate_over: spell.balls = 0 with spell.overs += 1, and nothing else.
simulate_over_spells(innings, outcomes) ==
    {IF i.overs > innings.overs THEN [i EXCEPT !.spell_balls[i.last_bowler_id] = 0]
     ELSE i : i \in simulate_over(innings, outcomes)}

RECURSIVE InningsLoopSpells(_, _, _)
InningsLoopSpells(frontier, done, outcomes) ==
    IF frontier = {} THEN done
    ELSE LET next == UNION {simulate_over_spells(i, outcomes) : i \in frontier}
         IN  InningsLoopSpells({i \in next : ~is_innings_complete(i)},
                               done \cup {i \in next : is_innings_complete(i)}, outcomes)

simulate_innings_spells(innings, outcomes) ==
    IF is_innings_complete(innings) THEN {innings}
    ELSE InningsLoopSpells({innings}, {}, outcomes)

\* play_ball: spell.balls += 1 for a legal delivery, 0 at the over's end.
play_ball_spells(engine, outcome) ==
    {LET after == with_spell_balls(current_innings(e))
     IN  with_innings(e,
             IF counts_as_ball(outcome) /\ after.balls = 0
             THEN [after EXCEPT !.spell_balls[after.last_bowler_id] = 0]
             ELSE IF counts_as_ball(outcome)
             THEN [after EXCEPT !.spell_balls[after.current_bowler_id] = @ + 1]
             ELSE after) :
        e \in play_ball(engine, outcome)}

\* POST /match/{career_id}/match/{fixture_id}/ball
PlayBallSpells(fixture_id, outcome) ==
    /\ ~(fixture_id \notin DOMAIN active_matches)
    /\ \E e \in play_ball_spells(active_matches[fixture_id], outcome) :
          ServeEngine(fixture_id, with_spells(e))

\* POST /match/{career_id}/match/{fixture_id}/simulate-over
SimulateOverSpells(fixture_id) ==
    /\ ~(fixture_id \notin DOMAIN active_matches)
    /\ LET engine == active_matches[fixture_id]
       IN  \E e \in simulate_interactive(engine,
                       simulate_over_spells(current_innings(engine), SpellOutcomes)) :
              ServeEngine(fixture_id, with_spells(e))

\* POST /match/{career_id}/match/{fixture_id}/simulate-innings
SimulateInningsSpells(fixture_id) ==
    /\ ~(fixture_id \notin DOMAIN active_matches)
    /\ LET engine == active_matches[fixture_id]
       IN  /\ OversPerInnings - current_innings(engine).overs <= MaxSpellOvers
           /\ \E e \in simulate_interactive(engine,
                          simulate_innings_spells(current_innings(engine), SpellOutcomes)) :
                 ServeEngine(fixture_id, with_spells(e))

InitSpells ==
    /\ NoRequests
    /\ \/ SeasonIs(LateMatch,
                   UserFixture :> [with_spells(LastBallEngine) EXCEPT
                                      !.innings1.spell_balls[LastOverBowler] =
                                          BallsPerOver - 1])
       \/ SeasonIs(LateMatch, UserFixture :> with_spells(ChaseEngine))

NextSpells ==
    \/ \E o \in SpellOutcomes : PlayBallSpells(UserFixture, o)
    \/ SimulateOverSpells(UserFixture)
    \/ SimulateInningsSpells(UserFixture)
    \/ \E b \in ManualBowlers : SelectBowler(UserFixture, b)

SpecSpells == InitSpells /\ [][NextSpells]_vars

\* The innings of the live and of the finished matches.
InningsBowled ==
    Innings \cup {completed_match_results[f].engine.innings1 :
                     f \in DOMAIN completed_match_results}
            \cup {completed_match_results[f].engine.innings2 :
                     f \in DOMAIN completed_match_results}

\* C40: at the end of every innings the bowlers' figures account for every
\* legal delivery: the sum over the bowlers of spell overs x 6 + spell
\* balls is innings overs x 6 + innings balls, also when the innings ends
\* part-way through an over.
C40_SpellsAccountForEveryBall ==
    \A i \in InningsBowled :
        is_innings_complete(i) =>
            SumOver(i.bowler_spells, DOMAIN i.bowler_spells) * BallsPerOver
                + SumOver(i.spell_balls, DOMAIN i.spell_balls)
              = i.overs * BallsPerOver + i.balls
====
